---- MODULE Spec2Model ----
(***************************************************************************)
(* Model of the sesame remote-join protocol and of the request pipeline    *)
(* that serves it: the invite store (db/models/invite.go), the             *)
(* InviteTokenAuth authenticator, the generic Handle pipeline and its      *)
(* error funnel (web/server/handler), and the /join endpoint.              *)
(***************************************************************************)
EXTENDS Integers, Sequences, FiniteSets, TLC

VARIABLES
    now,      \* the clock read by TimeNow()
    invites,  \* the invites table: id -> row, or NoRow
    certs,    \* the client_certs table: nonce of an invite -> number of certificates saved for it
    reqs,     \* the /join requests: id -> request
    errLvl,   \* the error level the server was started with
    created,  \* number of invites created so far (names the next nonce, uuid and key)
    pl,       \* HandleSpec: the pipeline value handed to Handle
    h,        \* HandleSpec: the state of one run of the function Handle returns
    mtls,     \* MTLSSpec: the users and services tables, the /open or /close request in progress
    firewall, \* the firewall manager with its mock backend
    usersTbl, \* UserLoadSpec: the rows of the users table and the last call of User.Load
    ln        \* ListenerSpec: the hybrid listener and the last call of Accept

vars == <<now, invites, certs, reqs, errLvl, created, pl, h, mtls, firewall, usersTbl, ln>>

----------------------------------------------------------------------------
(* Bounds *)

MaxTime == 3
MaxInvites == 1
MaxJoins == 2
MaxReqProcs == 1
MaxRespProcs == 2
MaxRows == 2
MaxDur == 2
MaxConns == 2

----------------------------------------------------------------------------
(* HTTP status codes (net/http) *)

StatusOK == 200
StatusBadRequest == 400
StatusUnauthorized == 401
StatusNotFound == 404
StatusInternalServerError == 500

StatusText(code) ==
    CASE code = 200 -> "OK"
      [] code = 400 -> "Bad Request"
      [] code = 401 -> "Unauthorized"
      [] code = 404 -> "Not Found"
      [] code = 500 -> "Internal Server Error"
      [] OTHER -> ""

----------------------------------------------------------------------------
(* web/server/types: ErrorLevel, Error, BaseResponse *)

ErrorLevelNone == "none"
ErrorLevelMinimal == "minimal"
ErrorLevelFull == "full"
ErrorLevels == {ErrorLevelNone, ErrorLevelMinimal, ErrorLevelFull}

\* A Go error value: nil, an error that is not a *types.Error, or a *types.Error.
NilErr == [kind |-> "nil", code |-> 0, msg |-> ""]
PlainErr(m) == [kind |-> "plain", code |-> 0, msg |-> m]
NewError(statusCode, message) == [kind |-> "typed", code |-> statusCode, msg |-> message]

\* A response envelope; data tells whether the endpoint's payload is filled in.
NewBaseResponse(statusCode) ==
    [StatusCode |-> statusCode, Status |-> StatusText(statusCode), Error |-> NilErr, data |-> FALSE]

\* createInstance[Resp](): the zero value of the response type.
createInstance == [StatusCode |-> 0, Status |-> "", Error |-> NilErr, data |-> FALSE]

GetStatusCode(r) ==
    IF r.StatusCode = 0 /\ r.Error # NilErr /\ r.Error.code > 0
    THEN r.Error.code
    ELSE r.StatusCode

SetStatusCode(r, code) == [r EXCEPT !.StatusCode = code, !.Status = StatusText(code)]

SetError(r, err) == [r EXCEPT !.Error = err]

----------------------------------------------------------------------------
(* web/server/handler: per-request context slots and response data *)

NoKey == <<>>

\* The response body as the chain of transformations that produced it: the
\* document that was marshalled and the processors applied to it, in order.
NoDoc == [kind |-> "none"]
NoData == [doc |-> NoDoc, layers |-> <<>>]

\* context.Background() as far as the two slots go.
EmptyCtx == [sharedKey |-> NoKey, data |-> NoData]

getSharedKey(ctx) == ctx.sharedKey
setSharedKey(ctx, key) == [ctx EXCEPT !.sharedKey = key]
getResponseData(ctx) == ctx.data
setResponseData(ctx, data) == [ctx EXCEPT !.data = data]

\* Mutant of jsonMarshal: the status_code field always is 200.
jsonMarshalStatusOK(resp) ==
    [kind |-> "json", status_code |-> StatusOK, status |-> resp.Status,
     hasError |-> resp.Error # NilErr, error |-> resp.Error.msg, data |-> resp.data]

\* json.Marshal of a response envelope: status_code, status, error (omitempty), data.
jsonMarshal(resp) ==
    [kind |-> "json", status_code |-> resp.StatusCode, status |-> resp.Status,
     hasError |-> resp.Error # NilErr, error |-> resp.Error.msg, data |-> resp.data]

\* len(data) == 0: nothing was marshalled (or an empty text) and no layer added bytes
\* (the base58 encoding of no bytes is the empty string, a ciphertext never is empty).
IsEmptyData(d) ==
    /\ \/ d.doc.kind = "none"
       \/ d.doc.kind = "text" /\ d.doc.msg = ""
    /\ \A k \in 1..Len(d.layers) : d.layers[k].op # "enc"

----------------------------------------------------------------------------
(* web/server/handler/response.go: sanitizeError, the response processors *)

\* Mutant of sanitizeError: level none passes the error through, as level full does.
sanitizeErrorNoneAsFull(terr, lvl) ==
    IF lvl = ErrorLevelMinimal
    THEN CASE terr.code = StatusUnauthorized -> NewError(terr.code, "authentication failed")
           [] terr.code = StatusBadRequest -> NewError(terr.code, "invalid request")
           [] OTHER -> NewError(terr.code, "request failed")
    ELSE terr

\* Mutant of sanitizeError: level minimal keeps the message of an error whose
\* status is neither 401 nor 400.
sanitizeErrorMinimalKeepsOther(terr, lvl) ==
    IF lvl = ErrorLevelNone THEN NilErr
    ELSE IF lvl = ErrorLevelMinimal
         THEN CASE terr.code = StatusUnauthorized -> NewError(terr.code, "authentication failed")
                [] terr.code = StatusBadRequest -> NewError(terr.code, "invalid request")
                [] OTHER -> terr
         ELSE terr

sanitizeError(terr, lvl) ==
    IF lvl = ErrorLevelNone THEN NilErr
    ELSE IF lvl = ErrorLevelMinimal
         THEN CASE terr.code = StatusUnauthorized -> NewError(terr.code, "authentication failed")
                [] terr.code = StatusBadRequest -> NewError(terr.code, "invalid request")
                [] OTHER -> NewError(terr.code, "request failed")
         ELSE terr

\* Mutant of errorHandler: a typed Error with status code 0 keeps that code.
errorHandlerKeepsZero(resp, lvl, err) ==
    IF err = NilErr THEN resp
    ELSE LET terr0 == IF err.kind # "typed" THEN NewError(StatusInternalServerError, err.msg) ELSE err
             terr == sanitizeError(terr0, lvl)
             statusCode == IF terr # NilErr THEN terr.code ELSE terr0.code
         IN SetError(SetStatusCode(resp, statusCode), terr)

\* errorHandler(resp, errLvl)(err): the response object after the call; the
\* call returns true exactly when err is not nil.
errorHandler(resp, lvl, err) ==
    IF err = NilErr THEN resp
    ELSE LET terr0 == IF err.kind # "typed" THEN NewError(StatusInternalServerError, err.msg)
                      ELSE IF err.code = 0 THEN NewError(StatusInternalServerError, err.msg)
                      ELSE err
             statusCode0 == terr0.code
             terr == sanitizeError(terr0, lvl)
             statusCode == IF terr # NilErr THEN terr.code ELSE statusCode0
         IN SetError(SetStatusCode(resp, statusCode), terr)

\* Mutant of Encrypt: the presence of a shared key is not looked at.
EncryptWithoutKeyCheck(ctx, fails) ==
    IF fails
    THEN [ctx |-> ctx, err |-> PlainErr("failed encrypting response"), ctype |-> ""]
    ELSE [ctx |-> setResponseData(ctx,
                      [getResponseData(ctx) EXCEPT
                          !.layers = Append(@, [op |-> "enc", key |-> getSharedKey(ctx)])]),
          err |-> NilErr, ctype |-> "application/octet-stream"]

\* A response processor's result: the context it returns, the error it returns
\* and the Content-Type it sets ("" when it sets none).  fails says that the
\* encryption primitive returned an error.
Encrypt(ctx, fails) ==
    IF Len(getSharedKey(ctx)) = 0
    THEN [ctx |-> ctx, err |-> NilErr, ctype |-> ""]
    ELSE IF fails
         THEN [ctx |-> ctx, err |-> PlainErr("failed encrypting response"), ctype |-> ""]
         ELSE [ctx |-> setResponseData(ctx,
                           [getResponseData(ctx) EXCEPT
                               !.layers = Append(@, [op |-> "enc", key |-> getSharedKey(ctx)])]),
               err |-> NilErr, ctype |-> "application/octet-stream"]

EncodeBase58(ctx) ==
    [ctx |-> setResponseData(ctx,
                 [getResponseData(ctx) EXCEPT !.layers = Append(@, [op |-> "b58", key |-> NoKey])]),
     err |-> NilErr, ctype |-> "application/octet-stream"]

ProcessorNames == {"Encrypt", "EncodeBase58"}

RunProcessor(name, ctx, fails) ==
    IF name = "Encrypt" THEN Encrypt(ctx, fails) ELSE EncodeBase58(ctx)

\* JSONSerializer.Serialize: fails says that json.Marshal rejected the response.
Serialize(ctx, resp, fails) ==
    IF fails
    THEN [ctx |-> ctx, err |-> PlainErr("failed marshalling response into JSON"), ctype |-> ""]
    ELSE [ctx |-> setResponseData(ctx, [doc |-> jsonMarshal(resp), layers |-> <<>>]),
          err |-> NilErr, ctype |-> "application/json"]

----------------------------------------------------------------------------
(* web/server/handler/handler.go: Handle *)

\* JSONSerializer.Deserialize on a request body: nil, empty, malformed, or JSON.
Bodies == {"nil", "empty", "malformed", "json"}

Deserialize(body) ==
    CASE body = "nil" -> PlainErr("empty request body")
      [] body = "json" -> NilErr
      [] OTHER -> PlainErr("failed decoding request body into JSON")

\* The state of one call of the function Handle returns.  pre is the response
\* object createInstance allocated (the one errorHandler was given), hresp the
\* object the handler returned, cur tells which of the two the variable resp
\* refers to.  ctype is the Content-Type of the writer's header map, written
\* counts the calls of WriteHeader, reqErr is the error a request stage or the
\* handler returned, respErr says that a response stage returned an error,
\* trace lists the stages that ran.
NewRun ==
    [pc |-> "auth", ctx |-> EmptyCtx, pre |-> createInstance, hresp |-> createInstance,
     cur |-> "pre", i |-> 1, ctype |-> "", written |-> 0, wstatus |-> 0,
     wbody |-> NoData, reqErr |-> NilErr, respErr |-> FALSE, panicked |-> FALSE,
     trace |-> <<>>]

\* The object the variable resp refers to.
Resp(r) == IF r.cur = "handler" THEN r.hresp ELSE r.pre

\* Mutant of handleErr: after an error the response is written at once.
handleErrWritesAtOnce(r, p, err) ==
    [r EXCEPT !.pre = errorHandler(r.pre, p.errorLevel, err), !.reqErr = err, !.pc = "write"]

\* handleErr(err) returned true in the request half: the deferred function runs next.
handleErr(r, p, err) ==
    [r EXCEPT !.pre = errorHandler(r.pre, p.errorLevel, err), !.reqErr = err, !.pc = "serialize"]

\* 1. Authentication (optional).  out is what p.auth returned: [ctx, err].
StepAuth(r, p, out) ==
    IF ~p.auth THEN [r EXCEPT !.pc = "deser"]
    ELSE LET r1 == [r EXCEPT !.ctx = out.ctx, !.trace = Append(@, "auth")]
         IN IF out.err # NilErr THEN handleErr(r1, p, out.err) ELSE [r1 EXCEPT !.pc = "deser"]

\* 2. Request deserialization (optional).
StepDeserialize(r, p, body) ==
    IF ~p.serializer THEN [r EXCEPT !.pc = "validate"]
    ELSE LET r1 == [r EXCEPT !.trace = Append(@, "deserialize")]
         IN IF Deserialize(body) # NilErr THEN handleErr(r1, p, Deserialize(body))
            ELSE [r1 EXCEPT !.pc = "validate"]

\* 3. Request validation (optional).  err is what req.Validate() returned.
StepValidate(r, p, err) ==
    LET next == IF p.nreq = 0 THEN "handler" ELSE "reqproc"
    IN IF ~p.validates THEN [r EXCEPT !.pc = next]
       ELSE LET r1 == [r EXCEPT !.trace = Append(@, "validate")]
            IN IF err # NilErr THEN handleErr(r1, p, err) ELSE [r1 EXCEPT !.pc = next]

\* 4. Request processing: the i-th request processor returned err.
StepReqProc(r, p, err) ==
    LET r1 == [r EXCEPT !.trace = Append(@, "reqproc")]
    IN IF err # NilErr THEN handleErr([r1 EXCEPT !.i = 1], p, err)
       ELSE IF r.i >= p.nreq THEN [r1 EXCEPT !.pc = "handler", !.i = 1]
       ELSE [r1 EXCEPT !.i = @ + 1]

\* 5. Run the handler.  out is what handlerFn returned: [nilResp, resp, err].
StepHandler(r, p, out) ==
    LET r1 == [r EXCEPT !.trace = Append(@, "handler")]
        r2 == IF ~out.nilResp THEN [r1 EXCEPT !.hresp = out.resp, !.cur = "handler"] ELSE r1
    IN handleErr(r2, p, out.err)

\* 6. Response serialization (optional), first statement of the deferred function.
StepSerialize(r, p, fails) ==
    LET next == IF Len(p.procs) = 0 THEN "write" ELSE "respproc"
    IN IF ~p.serializer THEN [r EXCEPT !.pc = next, !.i = 1]
       ELSE LET s == Serialize(r.ctx, Resp(r), fails)
                r1 == [r EXCEPT !.ctx = s.ctx, !.trace = Append(@, "serialize"),
                                !.ctype = IF s.ctype # "" THEN s.ctype ELSE @]
            IN IF s.err # NilErr
               THEN [r1 EXCEPT !.pre = errorHandler(r.pre, p.errorLevel, s.err), !.respErr = TRUE,
                               !.pc = "done"]
               ELSE [r1 EXCEPT !.pc = next, !.i = 1]

\* Mutant of StepRespProc: a failing processor starts the response stages again.
StepRespProcStartsOver(r, p, fails) ==
    LET s == RunProcessor(p.procs[r.i], r.ctx, fails)
        r1 == [r EXCEPT !.ctx = s.ctx, !.trace = Append(@, p.procs[r.i]),
                        !.ctype = IF s.ctype # "" THEN s.ctype ELSE @]
    IN IF s.err # NilErr
       THEN [r1 EXCEPT !.pre = errorHandler(r.pre, p.errorLevel, s.err), !.respErr = TRUE,
                       !.pc = "serialize"]
       ELSE IF r.i >= Len(p.procs) THEN [r1 EXCEPT !.pc = "write"]
       ELSE [r1 EXCEPT !.i = @ + 1]

\* 7. Response processing: the i-th response processor runs.
StepRespProc(r, p, fails) ==
    LET s == RunProcessor(p.procs[r.i], r.ctx, fails)
        r1 == [r EXCEPT !.ctx = s.ctx, !.trace = Append(@, p.procs[r.i]),
                        !.ctype = IF s.ctype # "" THEN s.ctype ELSE @]
    IN IF s.err # NilErr
       THEN [r1 EXCEPT !.pre = errorHandler(r.pre, p.errorLevel, s.err), !.respErr = TRUE,
                       !.pc = "write"]
       ELSE IF r.i >= Len(p.procs) THEN [r1 EXCEPT !.pc = "write"]
       ELSE [r1 EXCEPT !.i = @ + 1]

\* 8. writeResponse.  With no response data it falls back to the message of
\* resp.GetError(), dereferencing it also when it is a nil *Error; WriteHeader
\* panics on status code 0.
writeResponse(r) ==
    LET resp == Resp(r)
        data0 == getResponseData(r.ctx)
        nilDeref == IsEmptyData(data0) /\ resp.Error = NilErr
        data == IF IsEmptyData(data0) /\ resp.Error # NilErr
                THEN [doc |-> [kind |-> "text", msg |-> resp.Error.msg], layers |-> <<>>]
                ELSE data0
        r1 == [r EXCEPT !.trace = Append(@, "write"), !.pc = "done"]
    IN IF nilDeref \/ GetStatusCode(resp) = 0
       THEN [r1 EXCEPT !.panicked = TRUE]
       ELSE [r1 EXCEPT !.written = @ + 1, !.wstatus = GetStatusCode(resp), !.wbody = data,
                       !.ctype = IF @ = "" THEN "application/octet-stream" ELSE @]

\* The deferred function of Handle from the position of r to its end.
\* serFails: Serialize fails; procFails: the indices of the response processors that fail.
RECURSIVE Respond(_, _, _, _)
Respond(r, p, serFails, procFails) ==
    CASE r.pc = "serialize" -> Respond(StepSerialize(r, p, serFails), p, serFails, procFails)
      [] r.pc = "respproc" -> Respond(StepRespProc(r, p, r.i \in procFails), p, serFails, procFails)
      [] r.pc = "write" -> writeResponse(r)
      [] OTHER -> r

----------------------------------------------------------------------------
(* db/models/invite.go: the invite store *)

\* sql.Null[time.Time]; the zero time is 0, the clock starts at 1.
NullTime == [V |-> 0, Valid |-> FALSE]
ValidTime(t) == [V |-> t, Valid |-> TRUE]

NoRow == [ID |-> 0]

\* The zero Invite struct; 0 and "" are the zero values of its fields.
ZeroInvite ==
    [ID |-> 0, UUID |-> 0, ExpiresAt |-> 0, RedeemedAt |-> NullTime, SiteID |-> "",
     Nonce |-> 0, privKey |-> 0, User |-> 0]

InviteIds == 1..MaxInvites

Rows(tbl) == {tbl[i] : i \in {j \in DOMAIN tbl : tbl[j] # NoRow}}

IsRedeemed(inv) == inv.RedeemedAt.Valid /\ inv.RedeemedAt.V # 0

InviteStatusActive == "active"
InviteStatusExpired == "expired"
InviteStatusRedeemed == "redeemed"

\* Invite.Status(now); now.After(ExpiresAt) is now > ExpiresAt.
Status(inv, t) ==
    IF inv.RedeemedAt.Valid THEN InviteStatusRedeemed
    ELSE IF t > inv.ExpiresAt THEN InviteStatusExpired
    ELSE InviteStatusActive

\* Mutant of Matches: a nonce filter also matches at the time of expiry (expires_at >= ?).
MatchesAtExpiry(f, row) ==
    /\ row # NoRow
    /\ CASE f.by = "id" -> row.ID = f.arg
         [] f.by = "uuid" -> row.UUID = f.arg
         [] f.by = "nonce" -> row.Nonce = f.arg /\ row.ExpiresAt >= f.at
         [] OTHER -> FALSE
    /\ \/ f.redeemed = "any"
       \/ f.redeemed = "null" /\ ~row.RedeemedAt.Valid
       \/ f.redeemed = "at" /\ row.RedeemedAt.Valid /\ row.RedeemedAt.V = f.redeemedAt

\* A types.Filter over the invites table, as the predicate its WHERE clause states.
\* redeemed: "any" (no condition), "null" (redeemed_at IS NULL) or a time.
Matches(f, row) ==
    /\ row # NoRow
    /\ CASE f.by = "id" -> row.ID = f.arg
         [] f.by = "uuid" -> row.UUID = f.arg
         [] f.by = "nonce" -> row.Nonce = f.arg /\ row.ExpiresAt > f.at
         [] OTHER -> FALSE
    /\ \/ f.redeemed = "any"
       \/ f.redeemed = "null" /\ ~row.RedeemedAt.Valid
       \/ f.redeemed = "at" /\ row.RedeemedAt.Valid /\ row.RedeemedAt.V = f.redeemedAt

filterCount(tbl, f) == Cardinality({row \in Rows(tbl) : Matches(f, row)})

\* Invite.createFilter(ctx, d, limit): [err, filter].
createFilter(inv, tbl, timeNow, limit) ==
    LET f == CASE inv.ID # 0 -> [by |-> "id", arg |-> inv.ID, at |-> 0, redeemed |-> "any", redeemedAt |-> 0]
               [] inv.ID = 0 /\ inv.UUID # 0 ->
                    [by |-> "uuid", arg |-> inv.UUID, at |-> 0, redeemed |-> "any", redeemedAt |-> 0]
               [] inv.ID = 0 /\ inv.UUID = 0 /\ inv.Nonce # 0 ->
                    [by |-> "nonce", arg |-> inv.Nonce, at |-> timeNow, redeemed |-> "any", redeemedAt |-> 0]
               [] OTHER -> [by |-> "none", arg |-> 0, at |-> 0, redeemed |-> "any", redeemedAt |-> 0]
    IN IF f.by = "none"
       THEN [err |-> PlainErr("must provide either an invite ID, UUID or token"), noResult |-> FALSE, filter |-> f]
       ELSE IF filterCount(tbl, f) > limit
            THEN [err |-> PlainErr("filter returns more results; make the filter more specific"),
                  noResult |-> FALSE, filter |-> f]
            ELSE [err |-> NilErr, noResult |-> FALSE, filter |-> f]

\* Mutant of UpdateRow: redeemed_at is always part of the SET clause.
UpdateRowSetsRedeemedAt(row, inv, timeNow) ==
    [row EXCEPT !.ExpiresAt = IF inv.ExpiresAt # 0 THEN inv.ExpiresAt ELSE @,
                !.RedeemedAt = IF IsRedeemed(inv) THEN ValidTime(inv.RedeemedAt.V) ELSE NullTime,
                !.SiteID = IF inv.SiteID # "" THEN inv.SiteID ELSE @]

\* The SET clause of the UPDATE that Save(update = true) builds from the struct
\* (updated_at, which nothing reads, is left out of the rows).
UpdateRow(row, inv, timeNow) ==
    [row EXCEPT !.ExpiresAt = IF inv.ExpiresAt # 0 THEN inv.ExpiresAt ELSE @,
                !.RedeemedAt = IF IsRedeemed(inv) THEN ValidTime(inv.RedeemedAt.V) ELSE @,
                !.SiteID = IF inv.SiteID # "" THEN inv.SiteID ELSE @]

\* lastInsertID of an INSERT with id NULL into an INTEGER PRIMARY KEY column:
\* one more than the largest id in the table.
NextID(tbl) ==
    IF Rows(tbl) = {} THEN 1
    ELSE 1 + CHOOSE m \in {row.ID : row \in Rows(tbl)} : \A row \in Rows(tbl) : row.ID <= m

\* Invite.Save(ctx, d, update): [err, noResult, tbl, inv]; noResult says that
\* err is a types.NoResultError.  The INSERT is rejected by the constraints of
\* the table: uuid is UNIQUE, nonce is only NOT NULL.
Save(inv, tbl, update, timeNow) ==
    IF update
    THEN LET cf == createFilter(inv, tbl, timeNow, 1)
             hit == {i \in DOMAIN tbl : Matches(cf.filter, tbl[i])}
         IN IF cf.err # NilErr
            THEN [err |-> PlainErr("failed creating query filter"), noResult |-> FALSE, tbl |-> tbl, inv |-> inv]
            ELSE IF hit = {}
                 THEN [err |-> PlainErr("invite not found"), noResult |-> TRUE, tbl |-> tbl, inv |-> inv]
                 ELSE [err |-> NilErr, noResult |-> FALSE,
                       tbl |-> [i \in DOMAIN tbl |->
                                   IF i \in hit THEN UpdateRow(tbl[i], inv, timeNow) ELSE tbl[i]],
                       inv |-> inv]
    ELSE LET id == NextID(tbl)
             row == [inv EXCEPT !.ID = id, !.RedeemedAt = NullTime]
         IN IF \E old \in Rows(tbl) : old.UUID = inv.UUID
            THEN [err |-> PlainErr("failed saving new invite: UNIQUE constraint failed: invites.uuid"),
                  noResult |-> FALSE, tbl |-> tbl, inv |-> inv]
            ELSE [err |-> NilErr, noResult |-> FALSE,
                  tbl |-> [i \in DOMAIN tbl |-> IF i = id THEN row ELSE tbl[i]],
                  inv |-> [inv EXCEPT !.ID = id]]

\* Mutant of Load: no condition on redeemed_at is added to the filter.
LoadAnyRedeemed(inv, tbl, timeNow) ==
    LET cf == createFilter(inv, tbl, timeNow, 1)
        found == {row \in Rows(tbl) : Matches(cf.filter, row)}
    IN IF cf.err # NilErr
       THEN [err |-> PlainErr("failed creating query filter"), noResult |-> FALSE, inv |-> inv]
       ELSE IF found = {}
            THEN [err |-> PlainErr("invite not found"), noResult |-> TRUE, inv |-> inv]
            ELSE [err |-> NilErr, noResult |-> FALSE, inv |-> CHOOSE row \in found : TRUE]

\* Invite.Load(ctx, d): [err, noResult, inv].
Load(inv, tbl, timeNow) ==
    LET cf == createFilter(inv, tbl, timeNow, 1)
        f == IF ~inv.RedeemedAt.Valid THEN [cf.filter EXCEPT !.redeemed = "null"]
             ELSE IF inv.RedeemedAt.V # 0
                  THEN [cf.filter EXCEPT !.redeemed = "at", !.redeemedAt = inv.RedeemedAt.V]
                  ELSE cf.filter
        found == {row \in Rows(tbl) : Matches(f, row)}
    IN IF cf.err # NilErr
       THEN [err |-> PlainErr("failed creating query filter"), noResult |-> FALSE, inv |-> inv]
       ELSE IF found = {}
            THEN [err |-> PlainErr("invite not found"), noResult |-> TRUE, inv |-> inv]
            ELSE [err |-> NilErr, noResult |-> FALSE, inv |-> CHOOSE row \in found : TRUE]

\* Invite.Delete(ctx, d): [err, tbl].
Delete(inv, tbl, timeNow) ==
    LET cf == createFilter(inv, tbl, timeNow, 1)
        hit == {i \in DOMAIN tbl : Matches(cf.filter, tbl[i])}
    IN IF cf.err # NilErr THEN [err |-> PlainErr("failed creating query filter"), tbl |-> tbl]
       ELSE IF hit = {} THEN [err |-> PlainErr("invite not found"), tbl |-> tbl]
       ELSE [err |-> NilErr, tbl |-> [i \in DOMAIN tbl |-> IF i \in hit THEN NoRow ELSE tbl[i]]]

\* Invite.Redeem(ctx, d, t): [err, noResult, tbl, inv].
Redeem(inv, tbl, t, timeNow) ==
    IF IsRedeemed(inv)
    THEN [err |-> PlainErr("invite is already redeemed"), noResult |-> FALSE, tbl |-> tbl, inv |-> inv]
    ELSE Save([inv EXCEPT !.RedeemedAt = ValidTime(t)], tbl, TRUE, timeNow)

\* ORDER BY of a query: the rows of S as a sequence ordered by key (a function
\* on S), ascending or descending; SQLite leaves the order of rows with equal
\* keys open, one of them is taken.
RECURSIVE OrderBy(_, _, _)
OrderBy(S, key, asc) ==
    IF S = {} THEN <<>>
    ELSE LET first == CHOOSE x \in S :
                         \A y \in S : IF asc THEN key[x] <= key[y] ELSE key[x] >= key[y]
         IN <<first>> \o OrderBy(S \ {first}, key, asc)

\* InvitesByStatus(ctx, d, statusFilter, timeNow): the invites with a status
\* of statusFilter (the set of the statuses the map holds true for), the
\* active ones (expires_at > ? AND redeemed_at IS NULL) first, then the
\* redeemed ones, then the expired ones (expires_at <= ? AND redeemed_at IS NULL).
InvitesByStatus(tbl, statusFilter, timeNow) ==
    LET active == {row \in Rows(tbl) : row.ExpiresAt > timeNow /\ ~row.RedeemedAt.Valid}
        redeemed == {row \in Rows(tbl) : row.RedeemedAt.Valid}
        expired == {row \in Rows(tbl) : row.ExpiresAt <= timeNow /\ ~row.RedeemedAt.Valid}
    IN (IF InviteStatusActive \in statusFilter
        THEN OrderBy(active, [row \in active |-> row.ExpiresAt], TRUE) ELSE <<>>)
       \o (IF InviteStatusRedeemed \in statusFilter
           THEN OrderBy(redeemed, [row \in redeemed |-> row.RedeemedAt.V], FALSE) ELSE <<>>)
       \o (IF InviteStatusExpired \in statusFilter
           THEN OrderBy(expired, [row \in expired |-> row.ExpiresAt], FALSE) ELSE <<>>)

----------------------------------------------------------------------------
(* crypto, web/common: key exchange, HMAC, base58 strings, tokens *)

\* Keys are named by numbers: the X25519 key pair of the invite with nonce n is
\* n, the client key pairs are ClientKeys.  ECDH of a public and a private key
\* is the unordered pair of the two names, so both parties derive the same secret.
ClientKeys == {11}

\* Base58 strings: the empty string, a string that is not base58, or the
\* encoding of some bytes.
EmptyStr == [kind |-> "empty"]
Bad58 == [kind |-> "bad58"]
B58(bytes) == [kind |-> "b58", val |-> bytes]

base58Decode(enc) ==
    IF enc.kind = "bad58" THEN [err |-> PlainErr("invalid base58 digit"), val |-> [len |-> 0]]
    ELSE IF enc.kind = "empty" THEN [err |-> NilErr, val |-> [len |-> 0]]
    ELSE [err |-> NilErr, val |-> enc.val]

ShortBytes == [len |-> 3]
TokenBytes(nonce, mac) == [len |-> 64, nonce |-> nonce, mac |-> mac]
KeyBytes(k) == [len |-> 32, key |-> k]

\* common.DecodeToken: [err, nonce, mac].
DecodeToken(token) ==
    LET d == base58Decode(token)
    IN IF token.kind = "empty" \/ d.err # NilErr \/ d.val.len # 64
       THEN [err |-> PlainErr("invalid token"), nonce |-> 0, mac |-> 0]
       ELSE [err |-> NilErr, nonce |-> d.val.nonce, mac |-> d.val.mac]

\* crypto.ECDHExchange(remotePubKeyData, privKeyData): [err, sharedKey].
ECDHExchange(pubBytes, priv) ==
    IF pubBytes.len # 32
    THEN [err |-> PlainErr("failed instantiating X25519 public key"), sharedKey |-> NoKey]
    ELSE [err |-> NilErr,
          sharedKey |-> IF pubBytes.key <= priv THEN <<pubBytes.key, priv>> ELSE <<priv, pubBytes.key>>]

DeriveHMACKey(secret, info) == [secret |-> secret, info |-> info]
GenerateHMAC(data, key) == [data |-> data, key |-> key]
\* Mutant of CheckHMAC: every supplied MAC is accepted.
CheckHMACAcceptsAll(data, suppliedMAC, key) == TRUE

CheckHMAC(data, suppliedMAC, key) == suppliedMAC = GenerateHMAC(data, key)

\* The token a client holding key pair c computes from the invite token (n, public key k).
ClientToken(n, k, c) ==
    B58(TokenBytes(n, GenerateHMAC(n, DeriveHMACKey(ECDHExchange(KeyBytes(k), c).sharedKey,
                                                     "HMAC key derivation"))))
TamperedToken(n) ==
    B58(TokenBytes(n, GenerateHMAC(n, DeriveHMACKey(<<0, 0>>, "tampered"))))

\* The Authorization headers a client may send.
Nonces == 1..(MaxInvites + 1)
Headers ==
    {[scheme |-> "none", token |-> EmptyStr, rest |-> EmptyStr],
     [scheme |-> "Basic", token |-> EmptyStr, rest |-> EmptyStr]}
    \cup [scheme : {"Bearer"},
          token : {EmptyStr, Bad58, B58(ShortBytes)},
          rest : {B58(KeyBytes(c)) : c \in ClientKeys}]
    \cup [scheme : {"Bearer"},
          token : {ClientToken(n, n, c) : n \in Nonces, c \in ClientKeys}
                  \cup {TamperedToken(n) : n \in InviteIds},
          rest : {EmptyStr, Bad58, B58(ShortBytes)} \cup {B58(KeyBytes(c)) : c \in ClientKeys}]

\* parseAuthHeader(header): [err, token, rest].
parseAuthHeader(header) ==
    IF header.scheme = "none"
    THEN [err |-> PlainErr("empty Authorization header"), token |-> EmptyStr, rest |-> EmptyStr]
    ELSE IF header.scheme # "Bearer"
         THEN [err |-> PlainErr("invalid Authorization header scheme"), token |-> EmptyStr, rest |-> EmptyStr]
         ELSE [err |-> NilErr, token |-> header.token, rest |-> header.rest]

----------------------------------------------------------------------------
(* web/server/handler: InviteTokenAuth *)

\* Steps 1 to 6b of InviteTokenAuth, up to the call of Redeem: [err, inv, sharedKey].
AuthLookup(header, tbl, timeNow) ==
    LET ph == parseAuthHeader(header)
        tok == DecodeToken(ph.token)
        ld == Load([ZeroInvite EXCEPT !.Nonce = tok.nonce], tbl, timeNow)
        pk == base58Decode(ph.rest)
        dh == ECDHExchange(pk.val, ld.inv.privKey)
        hmacKey == DeriveHMACKey(dh.sharedKey, "HMAC key derivation")
        fail(code, msg) == [err |-> NewError(code, msg), inv |-> ZeroInvite, sharedKey |-> NoKey]
    IN IF ph.err # NilErr THEN fail(StatusUnauthorized, ph.err.msg)
       ELSE IF ph.token.kind = "empty" \/ ph.rest.kind = "empty"
            THEN fail(StatusUnauthorized, "must provide an invite token and public key")
       ELSE IF tok.err # NilErr THEN fail(StatusUnauthorized, "invalid invite token")
       ELSE IF ld.err # NilErr
            THEN IF ld.noResult THEN fail(StatusUnauthorized, "invite not found")
                 ELSE fail(StatusBadRequest, ld.err.msg)
       ELSE IF pk.err # NilErr THEN fail(StatusBadRequest, pk.err.msg)
       ELSE IF dh.err # NilErr THEN fail(StatusInternalServerError, dh.err.msg)
       ELSE IF ~CheckHMAC(ld.inv.Nonce, tok.mac, hmacKey)
            THEN fail(StatusUnauthorized, "invalid invite token")
       ELSE [err |-> NilErr, inv |-> ld.inv, sharedKey |-> dh.sharedKey]

\* Step 7 of InviteTokenAuth: [err, tbl, inv].
AuthRedeem(inv, tbl, timeNow) ==
    LET rd == Redeem(inv, tbl, timeNow, timeNow)
    IN IF rd.err # NilErr
       THEN [err |-> NewError(StatusInternalServerError, rd.err.msg), tbl |-> tbl, inv |-> inv]
       ELSE [err |-> NilErr, tbl |-> rd.tbl, inv |-> rd.inv]

----------------------------------------------------------------------------
(* web/server/api/v1: the /join endpoint *)

\* httpPipeline of SetupHandlers with InviteTokenAuth.
JoinPipeline(lvl) ==
    [auth |-> TRUE, serializer |-> TRUE, validates |-> TRUE, nreq |-> 0,
     procs |-> <<"Encrypt", "EncodeBase58">>, errorLevel |-> lvl]

\* JoinRequest.Validate; user 0 is the nil *User.
JoinValidate(user) ==
    IF user = 0 THEN NewError(StatusUnauthorized, "user object not found in the request context")
    ELSE NilErr

\* Handler.Join: what the handler returns when issuing the certificate or
\* saving its record fails, and when both succeed.
JoinOutcomes == {"ok", "certErr", "saveErr"}

Join(outcome) ==
    IF outcome = "ok"
    THEN [nilResp |-> FALSE, resp |-> [NewBaseResponse(StatusOK) EXCEPT !.data = TRUE], err |-> NilErr]
    ELSE [nilResp |-> TRUE, resp |-> createInstance,
          err |-> NewError(StatusInternalServerError,
                           IF outcome = "certErr" THEN "failed creating TLS certificate"
                           ELSE "failed saving client certificate")]

\* Handle after the authenticator returned nil: stages 2 to 8 for a /join request.
\* encFails says that crypto.EncryptSymInMemory returns an error in Encrypt.
JoinAfterAuth(r, p, body, user, outcome, encFails) ==
    LET r1 == StepDeserialize(r, p, body)
        r2 == IF r1.pc = "validate" THEN StepValidate(r1, p, JoinValidate(user)) ELSE r1
        r3 == IF r2.pc = "handler" THEN StepHandler(r2, p, Join(outcome)) ELSE r2
    IN Respond(r3, p, FALSE, IF encFails THEN {1} ELSE {})

----------------------------------------------------------------------------
(* The server with its database: /join requests, the invite commands, the clock *)

JoinIds == 1..MaxJoins

\* A /join request.  pc: "idle" (not yet sent), "loaded" (the authenticator
\* loaded the invite), "authed" (the authenticator returned nil), "done" (Handle
\* returned), "killed" (the server stopped before Handle returned).  token is
\* the token of the Authorization header and nonce the nonce of the invite, once
\* the authenticator loaded it.  after says that the request was sent after
\* a /join with the same token was answered 200, old that the server restarted
\* since the request, hit is the id of the row its Redeem updated (0: none), saw
\* says that the row was already redeemed when Redeem ran.  badMac is n when the
\* request is a well-formed /join for the invite with nonce n except that the
\* HMAC of its token differs from the correct value (0 otherwise).  expd is n
\* when the token of the request decoded to the nonce n of an invite whose
\* expires_at was not later than the clock when the request arrived (0 otherwise).
IdleReq ==
    [pc |-> "idle", token |-> EmptyStr, inv |-> ZeroInvite, nonce |-> 0, user |-> 0,
     run |-> NewRun, after |-> FALSE, old |-> FALSE, hit |-> 0, saw |-> FALSE, badMac |-> 0,
     expd |-> 0]

\* NewInvite(user, expiration, siteID, uuidGen): n names the fresh nonce, uuid and key.
NewInvite(user, expiration, siteID, n) ==
    [ZeroInvite EXCEPT !.UUID = n, !.ExpiresAt = expiration, !.User = user,
                       !.SiteID = IF siteID = "" THEN "generated" ELSE siteID,
                       !.Nonce = n, !.privKey = n]

\* cli invite user <name>: NewInvite and Save(update = false).  The expiration
\* passed the ExpirationMapper, which rejects the times before now.
InviteUser(exp, site) ==
    /\ created < MaxInvites
    /\ NextID(invites) \in InviteIds
    /\ exp >= now
    /\ invites' = Save(NewInvite(1, exp, site, created + 1), invites, FALSE, now).tbl
    /\ created' = created + 1
    /\ UNCHANGED <<now, certs, reqs, errLvl, pl, h, mtls, firewall, usersTbl, ln>>

\* cli invite update <id>: Save(update = true) of Invite{UUID, ExpiresAt, SiteID};
\* exp = 0 and site = "" are flags that were not given.
InviteUpdate(uuid, exp, site) ==
    /\ exp = 0 \/ exp >= now
    /\ invites' = Save([ZeroInvite EXCEPT !.UUID = uuid, !.ExpiresAt = exp, !.SiteID = site],
                       invites, TRUE, now).tbl
    /\ UNCHANGED <<now, certs, reqs, errLvl, created, pl, h, mtls, firewall, usersTbl, ln>>

\* cli invite remove <id>: Delete.
InviteRemove(uuid) ==
    /\ invites' = Delete([ZeroInvite EXCEPT !.UUID = uuid], invites, now).tbl
    /\ UNCHANGED <<now, certs, reqs, errLvl, created, pl, h, mtls, firewall, usersTbl, ln>>

\* Time passes.
Tick ==
    /\ now < MaxTime
    /\ now' = now + 1
    /\ UNCHANGED <<invites, certs, reqs, errLvl, created, pl, h, mtls, firewall, usersTbl, ln>>

\* Handle when the authenticator returned err: stage 1 and the deferred function.
JoinAuthFailed(p, err) ==
    Respond(StepAuth(NewRun, p, [ctx |-> EmptyCtx, err |-> err]), p, FALSE, {})

\* Handle for POST /join, from the start to the authenticator's lookup of the
\* invite (steps 1 to 6b).  When the authenticator fails here, Handle runs to
\* its end.  Requests are sent in the order of their ids.
JoinStart(r, header) ==
    /\ reqs[r].pc = "idle"
    /\ \A o \in JoinIds : o < r => reqs[o].pc # "idle"
    /\ LET p == JoinPipeline(errLvl)
           a == AuthLookup(header, invites, now)
           q == [reqs[r] EXCEPT !.after = \E o \in JoinIds :
                                             /\ reqs[o].pc = "done"
                                             /\ reqs[o].run.written = 1
                                             /\ reqs[o].run.wstatus = StatusOK
                                             /\ reqs[o].token = header.token,
                                !.badMac = IF \E n \in InviteIds, c \in ClientKeys :
                                                  /\ header.scheme = "Bearer"
                                                  /\ header.token = TamperedToken(n)
                                                  /\ header.rest = B58(KeyBytes(c))
                                           THEN base58Decode(header.token).val.nonce ELSE 0,
                                !.expd = IF /\ header.scheme = "Bearer"
                                            /\ header.token.kind # "empty"
                                            /\ header.rest.kind # "empty"
                                            /\ DecodeToken(header.token).err = NilErr
                                            /\ \E row \in Rows(invites) :
                                                  /\ row.Nonce = DecodeToken(header.token).nonce
                                                  /\ row.ExpiresAt <= now
                                         THEN DecodeToken(header.token).nonce ELSE 0]
       IN reqs' = [reqs EXCEPT ![r] =
                     IF a.err # NilErr
                     THEN [q EXCEPT !.pc = "done", !.run = JoinAuthFailed(p, a.err)]
                     ELSE [q EXCEPT !.pc = "loaded", !.token = header.token,
                                    !.inv = a.inv, !.nonce = a.inv.Nonce,
                                    !.run = [NewRun EXCEPT !.ctx = setSharedKey(EmptyCtx, a.sharedKey)]]]
    /\ UNCHANGED <<now, invites, certs, errLvl, created, pl, h, mtls, firewall, usersTbl, ln>>

\* The authenticator's step 7: Redeem, then SetUser and setSharedKey.
JoinRedeem(r) ==
    /\ reqs[r].pc = "loaded"
    /\ LET p == JoinPipeline(errLvl)
           q == reqs[r]
           a == AuthRedeem(q.inv, invites, now)
           sharedKey == getSharedKey(q.run.ctx)
           redeemed == invites[q.inv.ID] # NoRow /\ invites[q.inv.ID].RedeemedAt.Valid
       IN IF a.err # NilErr
          THEN /\ reqs' = [reqs EXCEPT ![r] =
                            [q EXCEPT !.pc = "done", !.inv = ZeroInvite, !.saw = redeemed,
                                      !.run = JoinAuthFailed(p, a.err)]]
               /\ invites' = invites
          ELSE /\ reqs' = [reqs EXCEPT ![r] =
                            [q EXCEPT !.pc = "authed", !.user = q.inv.User, !.inv = ZeroInvite,
                                      !.hit = q.inv.ID,
                                      !.saw = redeemed,
                                      !.run = StepAuth(NewRun, p,
                                                 [ctx |-> setSharedKey(EmptyCtx, sharedKey), err |-> NilErr])]]
               /\ invites' = a.tbl
    /\ UNCHANGED <<now, certs, errLvl, created, pl, h, mtls, firewall, usersTbl, ln>>

\* Handle after the authenticator: deserialization, validation, Handler.Join
\* (which saves the certificate record), the deferred response stages.
JoinFinish(r, body, outcome, encFails) ==
    /\ reqs[r].pc = "authed"
    /\ LET p == JoinPipeline(errLvl)
           q == reqs[r]
           run == JoinAfterAuth(q.run, p, body, q.user, outcome, encFails)
           ranHandler == \E k \in 1..Len(run.trace) : run.trace[k] = "handler"
       IN /\ reqs' = [reqs EXCEPT ![r] = [q EXCEPT !.pc = "done", !.run = run]]
          /\ certs' = IF ranHandler /\ outcome = "ok"
                      THEN [certs EXCEPT ![q.nonce] = @ + 1]
                      ELSE certs
    /\ UNCHANGED <<now, invites, errLvl, created, pl, h, mtls, firewall, usersTbl, ln>>

\* The server process stops and starts again: the requests in flight are lost,
\* the database is kept.
Restart ==
    /\ \E r \in JoinIds : reqs[r].pc # "idle" /\ ~reqs[r].old
    /\ reqs' = [r \in JoinIds |->
                  IF reqs[r].pc = "idle" THEN reqs[r]
                  ELSE [reqs[r] EXCEPT !.old = TRUE,
                                       !.inv = ZeroInvite,
                                       !.pc = IF @ \in {"loaded", "authed"} THEN "killed" ELSE @]]
    /\ UNCHANGED <<now, invites, certs, errLvl, created, pl, h, mtls, firewall, usersTbl, ln>>

----------------------------------------------------------------------------
(* firewall: Manager.GrantAccess, the mock backend (firewall/mock) *)

\* The ranges an IPSet is made of, and the ports of the services.
IPRanges == {"10.0.0.1/32", "10.0.0.2/32"}
Ports == {22, 8080}

\* Durations, in ticks of the clock.  0 is the duration of a request that
\* names none.
Durations == 0..MaxDur

\* WithDefaultAccessDuration(5 * time.Minute) of DefaultOptions.
DefaultAccessDuration == 2

\* models.Service values: name, port, max_access_duration.
Services ==
    {[Name |-> "web", Port |-> 8080, MaxAccessDuration |-> m] : m \in 1..MaxDur}
    \cup {[Name |-> "ssh", Port |-> 22, MaxAccessDuration |-> MaxDur]}

Min(a, b) == IF a < b THEN a ELSE b

\* mock.New and NewManager: Allowed is the map of the mock, as the set of its
\* entries (range, port, expiry); failErr says that SetFailError set an error;
\* last describes the last call of GrantAccess (had: the ranges of ipSet that
\* had an entry for the port of the service before the call).
NoCall == [op |-> "none"]

NewManager(dur) ==
    [Allowed |-> {}, failErr |-> FALSE, defaultAccessDuration |-> dur, last |-> NoCall]

\* Mutant of Allow: the entries already present are kept.
AllowKeepsOld(m, ipSet, destPort, duration, timeNow) ==
    IF m.failErr
    THEN [err |-> PlainErr("firewall error"), Allowed |-> m.Allowed]
    ELSE [err |-> NilErr,
          Allowed |-> m.Allowed
                      \cup {[ip |-> ip, port |-> destPort, expiry |-> timeNow + duration] :
                               ip \in ipSet}]

\* Mock.Allow: [err, Allowed].  ports[destPort] = timeNow().Add(duration)
\* replaces the entry of (range, destPort), if there is one.
Allow(m, ipSet, destPort, duration, timeNow) ==
    IF m.failErr
    THEN [err |-> PlainErr("firewall error"), Allowed |-> m.Allowed]
    ELSE [err |-> NilErr,
          Allowed |-> {e \in m.Allowed : ~(e.ip \in ipSet /\ e.port = destPort)}
                      \cup {[ip |-> ip, port |-> destPort, expiry |-> timeNow + duration] :
                               ip \in ipSet}]

\* The duration Manager.GrantAccess passes to Allow.
GrantDuration(m, svc, duration) ==
    LET clamped == IF duration > svc.MaxAccessDuration
                   THEN Min(duration, svc.MaxAccessDuration) ELSE duration
    IN IF clamped = 0 THEN m.defaultAccessDuration ELSE clamped

\* Manager.GrantAccess(ipSet, svc, duration): [err, Allowed].
GrantAccessResult(m, ipSet, svc, duration, timeNow) ==
    Allow(m, ipSet, svc.Port, GrantDuration(m, svc, duration), timeNow)

GrantAccess(ipSet, svc, duration) ==
    /\ LET res == GrantAccessResult(firewall, ipSet, svc, duration, now)
       IN firewall' = [firewall EXCEPT
                         !.Allowed = res.Allowed,
                         !.last = [op |-> "grant", ipSet |-> ipSet, svc |-> svc, d |-> duration,
                                   at |-> now, ok |-> res.err = NilErr,
                                   had |-> {ip \in ipSet : \E e \in firewall.Allowed :
                                                             e.ip = ip /\ e.port = svc.Port}]]
    /\ UNCHANGED <<now, invites, certs, reqs, errLvl, created, pl, h, mtls, usersTbl, ln>>

\* Firewall.Deny of the mock: the entries of (range of ipSet, destPort) are
\* removed.  [err, Allowed]
Deny(m, ipSet, destPort) ==
    IF m.failErr
    THEN [err |-> PlainErr("firewall error"), Allowed |-> m.Allowed]
    ELSE [err |-> NilErr,
          Allowed |-> {e \in m.Allowed : ~(e.ip \in ipSet /\ e.port = destPort)}]

\* Manager.DenyAccess(ipSet, svc, user).
DenyAccessResult(m, ipSet, svc) == Deny(m, ipSet, svc.Port)

\* The clients lists of the requests: entries in plain, CIDR or range notation,
\* or an entry that is none of them.
ClientLists ==
    {<<>>, <<"10.0.0.1/32">>, <<"bad">>}

\* ParseToIPSet(clients...): [err, ipSet].
ParseToIPSet(clients) ==
    IF \E k \in 1..Len(clients) : clients[k] = "bad"
    THEN [err |-> PlainErr("failed parsing IP address 'bad'"), ipSet |-> {}]
    ELSE [err |-> NilErr, ipSet |-> {clients[k] : k \in 1..Len(clients)}]

\* Mock.SetFailError.
SetFailError(fails) ==
    /\ firewall.failErr # fails
    /\ firewall' = [firewall EXCEPT !.failErr = fails]
    /\ UNCHANGED <<now, invites, certs, reqs, errLvl, created, pl, h, mtls, usersTbl, ln>>

\* The clock of the firewall host advances.
FirewallTick ==
    /\ now < MaxTime
    /\ now' = now + 1
    /\ UNCHANGED <<invites, certs, reqs, errLvl, created, pl, h, mtls, firewall, usersTbl, ln>>

----------------------------------------------------------------------------
(* /open and /close: TLSAuth, User.Load, the mTLS pipeline *)

UserNames == {"alice", "bob"}

\* What the server sees of the connection a request arrived on: plain HTTP
\* through the hybrid listener (r.TLS == nil), TLS with no verified chain, TLS
\* with an empty first chain, or TLS with a verified chain whose leaf has
\* Subject Common Name cn.
Conns ==
    {[kind |-> k, cn |-> ""] : k \in {"plain", "noChains", "emptyChain"}}
    \cup {[kind |-> "verified", cn |-> n] : n \in UserNames \cup {""}}

\* User.Load by name on the users table tbl (a set of names): [err, found].
\* queryFails says that the query of Users returns an error.
UserLoad(name, tbl, queryFails) ==
    IF name = ""
    THEN [err |-> PlainErr("failed loading user: either user ID or Name must be set"), found |-> FALSE]
    ELSE IF queryFails
         THEN [err |-> PlainErr("failed loading users"), found |-> FALSE]
         ELSE IF name \notin tbl
              THEN [err |-> PlainErr("user doesn't exist"), found |-> FALSE]
              ELSE [err |-> NilErr, found |-> TRUE]

\* Mutant of TLSAuth: the result of loading the user is not looked at.
TLSAuthIgnoresLoad(conn, tbl, queryFails) ==
    IF conn.kind # "verified"
    THEN [ctx |-> EmptyCtx, err |-> NewError(StatusUnauthorized, "failed TLS authentication"),
          user |-> ""]
    ELSE [ctx |-> EmptyCtx, err |-> NilErr, user |-> conn.cn]

\* TLSAuth: [ctx, err, user]; user is the name set on the request ("" : none).
TLSAuth(conn, tbl, queryFails) ==
    IF conn.kind # "verified"
    THEN [ctx |-> EmptyCtx, err |-> NewError(StatusUnauthorized, "failed TLS authentication"),
          user |-> ""]
    ELSE IF UserLoad(conn.cn, tbl, queryFails).err # NilErr
         THEN [ctx |-> EmptyCtx,
               err |-> NewError(StatusUnauthorized,
                                "failed loading user identified in the client TLS certificate"),
               user |-> ""]
         ELSE [ctx |-> EmptyCtx, err |-> NilErr, user |-> conn.cn]

\* httpsPipeline of SetupHandlers.
HTTPSPipeline ==
    [auth |-> TRUE, serializer |-> TRUE, validates |-> TRUE, nreq |-> 0, procs |-> <<>>,
     errorLevel |-> ErrorLevelFull]

\* OpenRequest.Validate.
OpenValidate(user, serviceName, clients) ==
    IF user = "" THEN NewError(StatusUnauthorized, "user object not found in the request context")
    ELSE IF serviceName = "" THEN NewError(StatusBadRequest, "service name must not be empty")
    ELSE IF Len(clients) = 0 THEN NewError(StatusBadRequest, "clients must not be empty")
    ELSE NilErr

\* CloseRequest.Validate.
CloseValidate(user, serviceName, clients) ==
    IF user = "" THEN NewError(StatusUnauthorized, "user object not found in the request context")
    ELSE IF serviceName = "" THEN NewError(StatusBadRequest, "service name must not be empty")
    ELSE IF Len(clients) = 0 THEN NewError(StatusBadRequest, "clients must not be empty")
    ELSE NilErr

\* The names a request can give for the service.
ServiceNames == {"", "web", "ssh"}

ZeroService == [Name |-> "", Port |-> 0, MaxAccessDuration |-> 0]

\* Service.Load by name on the services table tbl (a set of Service values
\* with distinct names): [err, svc].
ServiceLoad(name, tbl, queryFails) ==
    IF name = ""
    THEN [err |-> PlainErr("either service ID or Name must be set"), svc |-> ZeroService]
    ELSE IF queryFails
         THEN [err |-> PlainErr("failed loading services"), svc |-> ZeroService]
         ELSE IF ~\E x \in tbl : x.Name = name
              THEN [err |-> PlainErr("service with name doesn't exist"), svc |-> ZeroService]
              ELSE [err |-> NilErr, svc |-> CHOOSE x \in tbl : x.Name = name]

\* The decoded body of a /open or /close request.
ZeroRequest == [Clients |-> <<>>, ServiceName |-> "", Duration |-> 0]

\* A call of the firewall manager by a handler, or none.
NoFwCall == [op |-> "none", ipSet |-> {}, svc |-> ZeroService]

\* Mutant of Close: DenyAccess is called with whatever Service.Load left in svc.
CloseDeniesBeforeLoad(user, req, tbl, queryFails, m) ==
    LET p == ParseToIPSet(IF Len(req.Clients) = 0 THEN <<"0.0.0.0/0", "::/0">> ELSE req.Clients)
        l == ServiceLoad(req.ServiceName, tbl, queryFails)
        d == DenyAccessResult(m, p.ipSet, l.svc)
    IN [nilResp |-> FALSE, resp |-> NewBaseResponse(StatusOK), err |-> NilErr,
        call |-> [op |-> "deny", ipSet |-> p.ipSet, svc |-> l.svc], Allowed |-> d.Allowed]

\* Handler.Close: what it returns, the call of the firewall manager it made
\* and the entries of the firewall after it.
Close(user, req, tbl, queryFails, m) ==
    IF user = ""
    THEN [nilResp |-> TRUE, resp |-> createInstance, call |-> NoFwCall, Allowed |-> m.Allowed,
          err |-> NewError(StatusUnauthorized, "user object not found in the request context")]
    ELSE LET p == ParseToIPSet(IF Len(req.Clients) = 0 THEN <<"0.0.0.0/0", "::/0">>
                               ELSE req.Clients)
             l == ServiceLoad(req.ServiceName, tbl, queryFails)
             d == DenyAccessResult(m, p.ipSet, l.svc)
         IN IF p.err # NilErr
            THEN [nilResp |-> TRUE, resp |-> createInstance, call |-> NoFwCall,
                  Allowed |-> m.Allowed, err |-> NewError(StatusBadRequest, p.err.msg)]
            ELSE IF l.err # NilErr
            THEN [nilResp |-> TRUE, resp |-> createInstance, call |-> NoFwCall,
                  Allowed |-> m.Allowed, err |-> NewError(StatusBadRequest, l.err.msg)]
            ELSE IF d.err # NilErr
            THEN [nilResp |-> TRUE, resp |-> createInstance,
                  call |-> [op |-> "deny", ipSet |-> p.ipSet, svc |-> l.svc],
                  Allowed |-> d.Allowed, err |-> NewError(StatusBadRequest, d.err.msg)]
            ELSE [nilResp |-> FALSE, resp |-> NewBaseResponse(StatusOK),
                  call |-> [op |-> "deny", ipSet |-> p.ipSet, svc |-> l.svc],
                  Allowed |-> d.Allowed, err |-> NilErr]

\* Handler.Open, after its description (its body is not part of the sources):
\* parse the clients, load the service, GrantAccess, 200.
Open(user, req, tbl, queryFails, m, timeNow) ==
    IF user = ""
    THEN [nilResp |-> TRUE, resp |-> createInstance, call |-> NoFwCall, Allowed |-> m.Allowed,
          err |-> NewError(StatusUnauthorized, "user object not found in the request context")]
    ELSE LET p == ParseToIPSet(req.Clients)
             l == ServiceLoad(req.ServiceName, tbl, queryFails)
             g == GrantAccessResult(m, p.ipSet, l.svc, req.Duration, timeNow)
         IN IF p.err # NilErr
            THEN [nilResp |-> TRUE, resp |-> createInstance, call |-> NoFwCall,
                  Allowed |-> m.Allowed, err |-> NewError(StatusBadRequest, p.err.msg)]
            ELSE IF l.err # NilErr
            THEN [nilResp |-> TRUE, resp |-> createInstance, call |-> NoFwCall,
                  Allowed |-> m.Allowed, err |-> NewError(StatusBadRequest, "unknown service")]
            ELSE IF g.err # NilErr
            THEN [nilResp |-> TRUE, resp |-> createInstance,
                  call |-> [op |-> "grant", ipSet |-> p.ipSet, svc |-> l.svc],
                  Allowed |-> g.Allowed, err |-> NewError(StatusBadRequest, g.err.msg)]
            ELSE [nilResp |-> FALSE, resp |-> NewBaseResponse(StatusOK),
                  call |-> [op |-> "grant", ipSet |-> p.ipSet, svc |-> l.svc],
                  Allowed |-> g.Allowed, err |-> NilErr]

\* Handle after TLSAuth returned nil: stages 2 to 8 of a /open or /close request.
MTLSAfterAuth(r, p, body, valErr, out) ==
    LET r1 == StepDeserialize(r, p, body)
        r2 == IF r1.pc = "validate" THEN StepValidate(r1, p, valErr) ELSE r1
        r3 == IF r2.pc = "handler" THEN StepHandler(r2, p, out) ELSE r2
    IN Respond(r3, p, FALSE, {})

RanHandler(run) == \E k \in 1..Len(run.trace) : run.trace[k] = "handler"

\* The users table and the /open or /close request in progress.  pc: "idle",
\* "authed" (TLSAuth returned nil), "done" (Handle returned).  existed says that
\* the user named by the certificate was in the table when TLSAuth ran, dbErr
\* that the users query failed, fw that the handler called the firewall manager
\* and call with what, touched that the call changed the entries of the
\* firewall; ep, body, noClients and known describe the request: its endpoint,
\* the kind of its body, whether its clients list is empty, and whether the
\* service it names was in the services table when the handler ran.
IdleMTLS ==
    [users |-> {}, services |-> {}, pc |-> "idle", conn |-> [kind |-> "plain", cn |-> ""],
     user |-> "", existed |-> FALSE, dbErr |-> FALSE, fw |-> FALSE, run |-> NewRun,
     ep |-> "", body |-> "nil", noClients |-> FALSE, known |-> FALSE, call |-> NoFwCall,
     touched |-> FALSE]

\* Service.Save of a new service; Service.Delete.
ServiceSave(svc) ==
    /\ ~\E x \in mtls.services : x.Name = svc.Name
    /\ mtls' = [mtls EXCEPT !.services = @ \cup {svc}]
    /\ UNCHANGED <<now, invites, certs, reqs, errLvl, created, pl, h, firewall, usersTbl, ln>>

ServiceDelete(name) ==
    /\ \E x \in mtls.services : x.Name = name
    /\ mtls' = [mtls EXCEPT !.services = {x \in @ : x.Name # name}]
    /\ UNCHANGED <<now, invites, certs, reqs, errLvl, created, pl, h, firewall, usersTbl, ln>>

\* User.Save of a new user; User.Delete.
UserSave(name) ==
    /\ name \notin mtls.users
    /\ mtls' = [mtls EXCEPT !.users = @ \cup {name}]
    /\ UNCHANGED <<now, invites, certs, reqs, errLvl, created, pl, h, firewall, usersTbl, ln>>

UserDelete(name) ==
    /\ name \in mtls.users
    /\ mtls' = [mtls EXCEPT !.users = @ \ {name}]
    /\ UNCHANGED <<now, invites, certs, reqs, errLvl, created, pl, h, firewall, usersTbl, ln>>

\* POST /open or /close, stage 1 of Handle: TLSAuth.  When it fails, Handle
\* runs to its end.
MTLSStart(conn, queryFails) ==
    /\ mtls.pc \in {"idle", "done"}
    /\ LET a == TLSAuth(conn, mtls.users, queryFails)
           r1 == StepAuth(NewRun, HTTPSPipeline, [ctx |-> a.ctx, err |-> a.err])
       IN mtls' = [mtls EXCEPT
                     !.conn = conn, !.user = a.user, !.fw = FALSE, !.ep = "", !.body = "nil",
                     !.noClients = FALSE, !.known = FALSE, !.call = NoFwCall, !.touched = FALSE,
                     !.existed = conn.kind = "verified" /\ conn.cn \in mtls.users,
                     !.dbErr = conn.kind = "verified" /\ conn.cn # "" /\ queryFails,
                     !.pc = IF a.err # NilErr THEN "done" ELSE "authed",
                     !.run = IF a.err # NilErr THEN Respond(r1, HTTPSPipeline, FALSE, {}) ELSE r1]
    /\ UNCHANGED <<now, invites, certs, reqs, errLvl, created, pl, h, firewall, usersTbl, ln>>

\* POST /close, stages 2 to 8 of Handle.  body is the kind of the request body
\* and req what it decodes to when it is JSON; queryFails says that the query
\* of Services returns an error.
CloseFinish(body, req, queryFails) ==
    /\ mtls.pc = "authed"
    /\ LET dec == IF body = "json" THEN req ELSE ZeroRequest
           out == Close(mtls.user, dec, mtls.services, queryFails, firewall)
           run == MTLSAfterAuth(mtls.run, HTTPSPipeline, body,
                                CloseValidate(mtls.user, dec.ServiceName, dec.Clients), out)
           ran == RanHandler(run)
       IN /\ mtls' = [mtls EXCEPT
                        !.pc = "done", !.run = run, !.ep = "close", !.body = body,
                        !.noClients = Len(dec.Clients) = 0,
                        !.known = \E x \in mtls.services : x.Name = dec.ServiceName,
                        !.fw = ran /\ out.call.op # "none",
                        !.call = IF ran THEN out.call ELSE NoFwCall,
                        !.touched = ran /\ out.Allowed # firewall.Allowed]
          /\ firewall' = IF ran THEN [firewall EXCEPT !.Allowed = out.Allowed] ELSE firewall
    /\ UNCHANGED <<now, invites, certs, reqs, errLvl, created, pl, h, usersTbl, ln>>

\* POST /open, stages 2 to 8 of Handle.
OpenFinish(body, req, queryFails) ==
    /\ mtls.pc = "authed"
    /\ LET dec == IF body = "json" THEN req ELSE ZeroRequest
           out == Open(mtls.user, dec, mtls.services, queryFails, firewall, now)
           run == MTLSAfterAuth(mtls.run, HTTPSPipeline, body,
                                OpenValidate(mtls.user, dec.ServiceName, dec.Clients), out)
           ran == RanHandler(run)
       IN /\ mtls' = [mtls EXCEPT
                        !.pc = "done", !.run = run, !.ep = "open", !.body = body,
                        !.noClients = Len(dec.Clients) = 0,
                        !.known = \E x \in mtls.services : x.Name = dec.ServiceName,
                        !.fw = ran /\ out.call.op # "none",
                        !.call = IF ran THEN out.call ELSE NoFwCall,
                        !.touched = ran /\ out.Allowed # firewall.Allowed]
          /\ firewall' = IF ran THEN [firewall EXCEPT !.Allowed = out.Allowed] ELSE firewall
    /\ UNCHANGED <<now, invites, certs, reqs, errLvl, created, pl, h, usersTbl, ln>>

(* db/models/user.go: User.Load on the rows of the users table *)

UserIds == 1..MaxRows

\* The rows (id, name) the users table can hold.  The schema declares id the
\* primary key and name unique; a table that violates either is the case
\* User.Load guards against after its query.
UserRows == [ID : UserIds, Name : UserNames]

\* Users(ctx, d, filter): the users the query returns for the filter of Load,
\* as the set of their names.  The rows come ordered by name, and a row whose
\* name equals the name of the row before it adds no user.
Users(rows, id, name) ==
    {x.Name : x \in {y \in rows : IF id # 0 THEN y.ID = id ELSE y.Name = name}}

\* The rows that match the filter of Load.
UserMatches(rows, id, name) ==
    {y \in rows : IF id # 0 THEN y.ID = id ELSE y.Name = name}

\* User.Load with the user's ID and Name set to id and name: [err, panicked].
UserLoadRows(id, name, rows, queryFails) ==
    IF id = 0 /\ name = ""
    THEN [err |-> PlainErr("failed loading user: either user ID or Name must be set"),
          panicked |-> FALSE]
    ELSE IF queryFails
    THEN [err |-> PlainErr("failed loading users"), panicked |-> FALSE]
    ELSE IF Cardinality(Users(rows, id, name)) = 0
    THEN [err |-> PlainErr("user doesn't exist"), panicked |-> FALSE]
    ELSE IF Cardinality(Users(rows, id, name)) > 1
    THEN [err |-> NilErr, panicked |-> TRUE]
    ELSE [err |-> NilErr, panicked |-> FALSE]

NoUsers == [rows |-> {}, last |-> [op |-> "none"]]

\* A call of User.Load.
UserLoadCall(id, name, queryFails) ==
    /\ usersTbl' = [usersTbl EXCEPT
                      !.last = [op |-> "load", id |-> id, name |-> name, queryFails |-> queryFails,
                                matches |-> Cardinality(UserMatches(usersTbl.rows, id, name)),
                                res |-> UserLoadRows(id, name, usersTbl.rows, queryFails)]]
    /\ UNCHANGED <<now, invites, certs, reqs, errLvl, created, pl, h, mtls, firewall, ln>>

\* User.Delete by id or by name: DELETE FROM users WHERE id = ? (name = ?).
UserRowsDelete(id, name) ==
    /\ id # 0 \/ name # ""
    /\ UserMatches(usersTbl.rows, id, name) # {}
    /\ usersTbl' = [usersTbl EXCEPT !.rows = @ \ UserMatches(usersTbl.rows, id, name)]
    /\ UNCHANGED <<now, invites, certs, reqs, errLvl, created, pl, h, mtls, firewall, ln>>

----------------------------------------------------------------------------
(* web/server: HybridListener.Accept *)

\* Values of the first bytes of a connection: 0x16 (a TLS handshake record),
\* 0x03 and 0x04 (around the bound of the version byte).
PeekBytes == {3, 4, 22}

\* What peekConn.Peek(3) can return: three bytes and no error, or fewer than
\* three bytes with io.EOF (the peer closed) or with another read error.
Peeks ==
    {[b |-> b, err |-> "nil"] : b \in [1..3 -> PeekBytes]}
    \cup {[b |-> b, err |-> e] :
             b \in {<<>>} \cup [1..1 -> PeekBytes] \cup [1..2 -> PeekBytes],
             e \in {"EOF", "other"}}

\* The test of the first three bytes, evaluated left to right: indexing b
\* beyond its length panics.
IsTLSHandshake(b) ==
    IF Len(b) < 1 THEN "panic"
    ELSE IF b[1] # 22 THEN "no"
    ELSE IF Len(b) < 2 THEN "panic"
    ELSE IF b[2] # 3 THEN "no"
    ELSE IF Len(b) < 3 THEN "panic"
    ELSE IF b[3] <= 3 THEN "yes" ELSE "no"

\* HybridListener.Accept: [conn, err, closed, panicked].  conn is "none", "tls"
\* or "http"; closed says that the accepted connection was closed.
AcceptResult(acceptFails, peek) ==
    IF acceptFails
    THEN [conn |-> "none", err |-> "accept", closed |-> FALSE, panicked |-> FALSE]
    ELSE IF peek.err = "other"
    THEN [conn |-> "none", err |-> "other", closed |-> TRUE, panicked |-> FALSE]
    ELSE IF IsTLSHandshake(peek.b) = "panic"
    THEN [conn |-> "none", err |-> "nil", closed |-> peek.err # "nil", panicked |-> TRUE]
    ELSE [conn |-> IF IsTLSHandshake(peek.b) = "yes" THEN "tls" ELSE "http",
          err |-> "nil", closed |-> peek.err # "nil", panicked |-> FALSE]

\* The listener: the connections it returned that are still open, whether a
\* panic ended its accept loop, and its last call of Accept.
NewListener == [open |-> 0, down |-> FALSE, last |-> [op |-> "none"]]

Accept(acceptFails, peek) ==
    /\ ~ln.down
    /\ ln.open < MaxConns
    /\ LET res == AcceptResult(acceptFails, peek)
       IN ln' = [open |-> IF res.conn # "none" /\ ~res.closed THEN ln.open + 1 ELSE ln.open,
                 down |-> res.panicked,
                 last |-> [op |-> "accept", acceptFails |-> acceptFails, peek |-> peek,
                           res |-> res]]
    /\ UNCHANGED <<now, invites, certs, reqs, errLvl, created, pl, h, mtls, firewall, usersTbl>>

\* A connection the listener returned is closed.
ConnClose ==
    /\ ln.open > 0
    /\ ln' = [ln EXCEPT !.open = @ - 1]
    /\ UNCHANGED <<now, invites, certs, reqs, errLvl, created, pl, h, mtls, firewall, usersTbl>>

\* The accept loop of http.Server.Serve over the hybrid listener, with the
\* clients.  A connection is "none" (not opened), "queued" (opened, waiting in
\* the queue of the TCP listener, which hands connections out in the order
\* they arrived), "peeking" (returned by ln.Listener.Accept,
\* Accept is inside Peek(3) on it) or "returned" (returned by Accept and served
\* on a goroutine of its own); sent counts the bytes its client has sent (up to
\* the three Peek asks for), eof says that the client closed it.
ConnIds == 1..MaxConns

NoConn == [st |-> "none", kind |-> "http", sent |-> 0, eof |-> FALSE]

\* The first three bytes a client of either kind sends.
FirstBytes(kind) == IF kind = "tls" THEN <<22, 3, 3>> ELSE <<4, 4, 4>>

NewServer == [conns |-> [c \in ConnIds |-> NoConn], queue |-> <<>>, down |-> FALSE]

\* peekConn.Peek(3) on a connection returns once three bytes arrived or the
\* client closed; until then it blocks (Accept sets no read deadline, the
\* timeouts of http.Server apply to connections Accept has returned).
PeekReady(conn) == conn.sent = 3 \/ conn.eof

PeekOf(conn) ==
    [b |-> SubSeq(FirstBytes(conn.kind), 1, conn.sent),
     err |-> IF conn.sent = 3 THEN "nil" ELSE "EOF"]

\* A client opens connection c.
Dial(c, kind) ==
    /\ ln.conns[c].st = "none"
    /\ ln' = [ln EXCEPT !.conns[c] = [NoConn EXCEPT !.st = "queued", !.kind = kind],
                        !.queue = Append(@, c)]
    /\ UNCHANGED <<now, invites, certs, reqs, errLvl, created, pl, h, mtls, firewall, usersTbl>>

\* The client of connection c sends its next byte.
Send(c) ==
    /\ ln.conns[c].st \in {"queued", "peeking", "returned"}
    /\ ~ln.conns[c].eof
    /\ ln.conns[c].sent < 3
    /\ ln' = [ln EXCEPT !.conns[c].sent = @ + 1]
    /\ UNCHANGED <<now, invites, certs, reqs, errLvl, created, pl, h, mtls, firewall, usersTbl>>

\* The client of connection c closes it.
Hangup(c) ==
    /\ ln.conns[c].st \in {"queued", "peeking", "returned"}
    /\ ~ln.conns[c].eof
    /\ ln' = [ln EXCEPT !.conns[c].eof = TRUE]
    /\ UNCHANGED <<now, invites, certs, reqs, errLvl, created, pl, h, mtls, firewall, usersTbl>>

\* Accept, first statement: ln.Listener.Accept() returns the first queued
\* connection.  Serve calls Accept in one loop, so no other call of Accept is
\* under way.
AcceptConn ==
    /\ ~ln.down
    /\ \A c \in ConnIds : ln.conns[c].st # "peeking"
    /\ ln.queue # <<>>
    /\ ln' = [ln EXCEPT !.conns[Head(ln.queue)].st = "peeking", !.queue = Tail(@)]
    /\ UNCHANGED <<now, invites, certs, reqs, errLvl, created, pl, h, mtls, firewall, usersTbl>>

\* Accept, the rest: Peek(3) returns and Accept returns the connection (which
\* Serve hands to a new goroutine), or panics, which ends the accept loop.
AcceptPeek ==
    /\ ~ln.down
    /\ \E c \in ConnIds :
         /\ ln.conns[c].st = "peeking"
         /\ PeekReady(ln.conns[c])
         /\ LET res == AcceptResult(FALSE, PeekOf(ln.conns[c]))
            IN ln' = [ln EXCEPT !.conns[c] = IF res.conn # "none" THEN [@ EXCEPT !.st = "returned"]
                                             ELSE NoConn,
                                !.down = res.panicked]
    /\ UNCHANGED <<now, invites, certs, reqs, errLvl, created, pl, h, mtls, firewall, usersTbl>>

\* The goroutine serving connection c ends and closes it.
ServeDone(c) ==
    /\ ln.conns[c].st = "returned"
    /\ ln' = [ln EXCEPT !.conns[c] = NoConn]
    /\ UNCHANGED <<now, invites, certs, reqs, errLvl, created, pl, h, mtls, firewall, usersTbl>>

----------------------------------------------------------------------------
NoPipeline ==
    [auth |-> FALSE, serializer |-> FALSE, validates |-> FALSE, nreq |-> 0, procs |-> <<>>,
     errorLevel |-> ErrorLevelFull]

Init ==
    /\ now = 1
    /\ invites = [i \in InviteIds |-> NoRow]
    /\ certs = [n \in Nonces |-> 0]
    /\ reqs = [r \in JoinIds |-> IdleReq]
    /\ errLvl \in ErrorLevels
    /\ created = 0
    /\ pl = NoPipeline
    /\ h = NewRun
    /\ mtls = IdleMTLS
    /\ firewall = NewManager(DefaultAccessDuration)
    /\ usersTbl = NoUsers
    /\ ln = NewListener

Next ==
    \/ \E exp \in 1..MaxTime, site \in {"", "home"} : InviteUser(exp, site)
    \/ \E uuid \in 1..MaxInvites, exp \in 0..MaxTime, site \in {"", "home"} : InviteUpdate(uuid, exp, site)
    \/ \E uuid \in 1..MaxInvites : InviteRemove(uuid)
    \/ Tick
    \/ \E r \in JoinIds, header \in Headers : JoinStart(r, header)
    \/ \E r \in JoinIds : JoinRedeem(r)
    \/ \E r \in JoinIds, body \in Bodies, outcome \in JoinOutcomes, encFails \in BOOLEAN :
           JoinFinish(r, body, outcome, encFails)
    \/ Restart

Spec == Init /\ [][Next]_vars

----------------------------------------------------------------------------
(* Handle on its own: one request through any pipeline, stage by stage *)

\* The errors a stage or a handler may return.
Errs ==
    {PlainErr("plain error"), NewError(0, "no status"),
     NewError(StatusBadRequest, "bad request"), NewError(StatusUnauthorized, "unauthorized"),
     NewError(StatusNotFound, "not found"), NewError(StatusInternalServerError, "internal")}

Pipelines ==
    [auth : BOOLEAN, serializer : BOOLEAN, validates : BOOLEAN, nreq : 0..MaxReqProcs,
     procs : UNION {[1..n -> ProcessorNames] : n \in 0..MaxRespProcs},
     errorLevel : ErrorLevels]

\* What an authenticator returns: TLSAuth and InviteTokenAuth return the context
\* they were given with an error, InviteTokenAuth adds the shared key on success.
AuthOutcomes ==
    {[ctx |-> EmptyCtx, err |-> e] : e \in Errs \cup {NilErr}}
    \cup {[ctx |-> setSharedKey(EmptyCtx, <<1, 11>>), err |-> NilErr]}

\* What a handler returns: (nil, err), (resp, nil) or (resp, err).
HandlerOutcomes ==
    {[nilResp |-> TRUE, resp |-> createInstance, err |-> e] : e \in Errs}
    \cup {[nilResp |-> FALSE, resp |-> [NewBaseResponse(StatusOK) EXCEPT !.data = TRUE], err |-> e] :
             e \in Errs \cup {NilErr}}

HAuth ==
    /\ h.pc = "auth"
    /\ \E out \in AuthOutcomes : h' = StepAuth(h, pl, out)
    /\ UNCHANGED <<now, invites, certs, reqs, errLvl, created, pl, mtls, firewall, usersTbl, ln>>

HDeserialize ==
    /\ h.pc = "deser"
    /\ \E body \in Bodies : h' = StepDeserialize(h, pl, body)
    /\ UNCHANGED <<now, invites, certs, reqs, errLvl, created, pl, mtls, firewall, usersTbl, ln>>

HValidate ==
    /\ h.pc = "validate"
    /\ \E err \in Errs \cup {NilErr} : h' = StepValidate(h, pl, err)
    /\ UNCHANGED <<now, invites, certs, reqs, errLvl, created, pl, mtls, firewall, usersTbl, ln>>

HReqProc ==
    /\ h.pc = "reqproc"
    /\ \E err \in Errs \cup {NilErr} : h' = StepReqProc(h, pl, err)
    /\ UNCHANGED <<now, invites, certs, reqs, errLvl, created, pl, mtls, firewall, usersTbl, ln>>

HHandler ==
    /\ h.pc = "handler"
    /\ \E out \in HandlerOutcomes : h' = StepHandler(h, pl, out)
    /\ UNCHANGED <<now, invites, certs, reqs, errLvl, created, pl, mtls, firewall, usersTbl, ln>>

HSerialize ==
    /\ h.pc = "serialize"
    /\ \E fails \in BOOLEAN : h' = StepSerialize(h, pl, fails)
    /\ UNCHANGED <<now, invites, certs, reqs, errLvl, created, pl, mtls, firewall, usersTbl, ln>>

HRespProc ==
    /\ h.pc = "respproc"
    /\ \E fails \in BOOLEAN : h' = StepRespProc(h, pl, fails)
    /\ UNCHANGED <<now, invites, certs, reqs, errLvl, created, pl, mtls, firewall, usersTbl, ln>>

HWrite ==
    /\ h.pc = "write"
    /\ h' = writeResponse(h)
    /\ UNCHANGED <<now, invites, certs, reqs, errLvl, created, pl, mtls, firewall, usersTbl, ln>>

HandleInit ==
    /\ now = 1
    /\ invites = [i \in InviteIds |-> NoRow]
    /\ certs = [n \in Nonces |-> 0]
    /\ reqs = [r \in JoinIds |-> IdleReq]
    /\ errLvl = ErrorLevelFull
    /\ created = 0
    /\ pl \in Pipelines
    /\ h = NewRun
    /\ mtls = IdleMTLS
    /\ firewall = NewManager(DefaultAccessDuration)
    /\ usersTbl = NoUsers
    /\ ln = NewListener

HandleNext ==
    \/ HAuth
    \/ HDeserialize
    \/ HValidate
    \/ HReqProc
    \/ HHandler
    \/ HSerialize
    \/ HRespProc
    \/ HWrite

HandleSpec == HandleInit /\ [][HandleNext]_vars

----------------------------------------------------------------------------
(* Handle under concurrent requests: several calls of the function Handle
   returned, all holding the pointer to one registered pipeline *)

MaxSharers == 2
Sharers == 1..MaxSharers

\* The pipelines SetupHandlers registers: httpPipeline with InviteTokenAuth for
\* /join, httpsPipeline for /open and /close.
SharedPipelines ==
    {JoinPipeline(lvl) : lvl \in ErrorLevels} \cup {HTTPSPipeline}

\* What the stages of one step are given: the authenticator's result, the
\* request body, the error of Validate, the handler's result, whether the
\* response stage fails.
StepInputs ==
    [auth : {[ctx |-> setSharedKey(EmptyCtx, <<1, 11>>), err |-> NilErr],
             [ctx |-> EmptyCtx, err |-> NewError(StatusUnauthorized, "unauthorized")]},
     body : {"json", "malformed"},
     err : {NilErr, NewError(StatusBadRequest, "bad request")},
     out : {[nilResp |-> TRUE, resp |-> createInstance,
             err |-> NewError(StatusNotFound, "not found")],
            [nilResp |-> FALSE, resp |-> [NewBaseResponse(StatusOK) EXCEPT !.data = TRUE],
             err |-> NilErr]},
     fails : BOOLEAN]

\* Mutant of HandleStep: the loop over the response processors consumes them.
HandleStepConsumesProcessors(r, p, in) ==
    [run |-> CASE r.pc = "auth" -> StepAuth(r, p, in.auth)
               [] r.pc = "deser" -> StepDeserialize(r, p, in.body)
               [] r.pc = "validate" -> StepValidate(r, p, in.err)
               [] r.pc = "reqproc" -> StepReqProc(r, p, in.err)
               [] r.pc = "handler" -> StepHandler(r, p, in.out)
               [] r.pc = "serialize" -> StepSerialize(r, p, in.fails)
               [] r.pc = "respproc" -> StepRespProc([r EXCEPT !.i = 1], p, in.fails)
               [] OTHER -> writeResponse(r),
     p |-> IF r.pc = "respproc" THEN [p EXCEPT !.procs = Tail(@)] ELSE p]

\* One stage of the function Handle returned, on the run r of a request: the
\* closure reads p.auth, p.serializer, p.requestProcessors,
\* p.responseProcessors and p.errorLevel and assigns to none of them.
HandleStep(r, p, in) ==
    [run |-> CASE r.pc = "auth" -> StepAuth(r, p, in.auth)
               [] r.pc = "deser" -> StepDeserialize(r, p, in.body)
               [] r.pc = "validate" -> StepValidate(r, p, in.err)
               [] r.pc = "reqproc" -> StepReqProc(r, p, in.err)
               [] r.pc = "handler" -> StepHandler(r, p, in.out)
               [] r.pc = "serialize" -> StepSerialize(r, p, in.fails)
               [] r.pc = "respproc" -> StepRespProc(r, p, in.fails)
               [] OTHER -> writeResponse(r),
     p |-> p]

\* The server runs the next stage of request k.
Serve(k) ==
    /\ h[k].pc # "done"
    /\ \E in \in StepInputs :
         LET s == HandleStep(h[k], pl, in)
         IN /\ h' = [h EXCEPT ![k] = s.run]
            /\ pl' = s.p
    /\ UNCHANGED <<now, invites, certs, reqs, errLvl, created, mtls, firewall, usersTbl, ln>>

SharedInit ==
    /\ now = 1
    /\ invites = [i \in InviteIds |-> NoRow]
    /\ certs = [n \in Nonces |-> 0]
    /\ reqs = [r \in JoinIds |-> IdleReq]
    /\ errLvl = ErrorLevelFull
    /\ created = 0
    /\ pl \in SharedPipelines
    /\ h = [k \in Sharers |-> NewRun]
    /\ mtls = IdleMTLS
    /\ firewall = NewManager(DefaultAccessDuration)
    /\ usersTbl = NoUsers
    /\ ln = NewListener

SharedNext == \E k \in Sharers : Serve(k)

SharedSpec == SharedInit /\ [][SharedNext]_vars

----------------------------------------------------------------------------
(* /open and /close on their own: the users table and one request at a time *)

\* What the body of a /open or /close request can decode to.
Requests ==
    [Clients : ClientLists, ServiceName : ServiceNames, Duration : {0, MaxDur}]

MTLSInit ==
    /\ now = 1
    /\ invites = [i \in InviteIds |-> NoRow]
    /\ certs = [n \in Nonces |-> 0]
    /\ reqs = [r \in JoinIds |-> IdleReq]
    /\ errLvl = ErrorLevelFull
    /\ created = 0
    /\ pl = NoPipeline
    /\ h = NewRun
    /\ mtls = IdleMTLS
    /\ firewall = NewManager(DefaultAccessDuration)
    /\ usersTbl = NoUsers
    /\ ln = NewListener

MTLSNext ==
    \/ \E name \in UserNames : UserSave(name)
    \/ \E name \in UserNames : UserDelete(name)
    \/ \E conn \in Conns, queryFails \in BOOLEAN : MTLSStart(conn, queryFails)
    \/ \E svc \in Services : ServiceSave(svc)
    \/ \E name \in ServiceNames : ServiceDelete(name)
    \/ \E fails \in BOOLEAN : SetFailError(fails)
    \/ \E body \in Bodies, queryFails \in BOOLEAN :
         \E req \in IF body = "json" THEN Requests ELSE {ZeroRequest} :
           CloseFinish(body, req, queryFails)
    \/ \E body \in Bodies, queryFails \in BOOLEAN :
         \E req \in IF body = "json" THEN Requests ELSE {ZeroRequest} :
           OpenFinish(body, req, queryFails)

MTLSSpec == MTLSInit /\ [][MTLSNext]_vars

----------------------------------------------------------------------------
(* The invites table on its own: inserts with any nonce and uuid, deletes *)

RowIds == 1..MaxRows

\* Save(update = false) of a new invite whose nonce (crypto.RandomData) is n
\* and whose uuid (uuidGen) is u; the table is left as it was when the INSERT
\* is rejected.
StoreInsert(n, u, exp, site) ==
    /\ NextID(invites) \in RowIds
    /\ exp >= now
    /\ invites' = Save([NewInvite(1, exp, site, n) EXCEPT !.UUID = u], invites, FALSE, now).tbl
    /\ UNCHANGED <<now, certs, reqs, errLvl, created, pl, h, mtls, firewall, usersTbl, ln>>

\* Delete of the invite with uuid u.
StoreDelete(u) ==
    /\ invites' = Delete([ZeroInvite EXCEPT !.UUID = u], invites, now).tbl
    /\ UNCHANGED <<now, certs, reqs, errLvl, created, pl, h, mtls, firewall, usersTbl, ln>>

StoreInit ==
    /\ now = 1
    /\ invites = [i \in RowIds |-> NoRow]
    /\ certs = [n \in Nonces |-> 0]
    /\ reqs = [r \in JoinIds |-> IdleReq]
    /\ errLvl = ErrorLevelFull
    /\ created = 0
    /\ pl = NoPipeline
    /\ h = NewRun
    /\ mtls = IdleMTLS
    /\ firewall = NewManager(DefaultAccessDuration)
    /\ usersTbl = NoUsers
    /\ ln = NewListener

StoreNext ==
    \/ \E n \in RowIds, u \in RowIds, exp \in 1..MaxTime, site \in {"", "home"} :
           StoreInsert(n, u, exp, site)
    \/ \E u \in RowIds : StoreDelete(u)

StoreSpec == StoreInit /\ [][StoreNext]_vars

----------------------------------------------------------------------------
(* The firewall manager on its own: grants on the mock backend, the clock *)

FirewallInit ==
    /\ now = 1
    /\ invites = [i \in InviteIds |-> NoRow]
    /\ certs = [n \in Nonces |-> 0]
    /\ reqs = [r \in JoinIds |-> IdleReq]
    /\ errLvl = ErrorLevelFull
    /\ created = 0
    /\ pl = NoPipeline
    /\ h = NewRun
    /\ mtls = IdleMTLS
    /\ firewall = NewManager(DefaultAccessDuration)
    /\ usersTbl = NoUsers
    /\ ln = NewListener

FirewallNext ==
    \/ \E ipSet \in SUBSET IPRanges, svc \in Services, duration \in Durations :
           GrantAccess(ipSet, svc, duration)
    \/ \E fails \in BOOLEAN : SetFailError(fails)
    \/ FirewallTick

FirewallSpec == FirewallInit /\ [][FirewallNext]_vars

----------------------------------------------------------------------------
(* User.Load on its own: any rows of the users table, lookups by id or name *)

UserLoadInit ==
    /\ now = 1
    /\ invites = [i \in InviteIds |-> NoRow]
    /\ certs = [n \in Nonces |-> 0]
    /\ reqs = [r \in JoinIds |-> IdleReq]
    /\ errLvl = ErrorLevelFull
    /\ created = 0
    /\ pl = NoPipeline
    /\ h = NewRun
    /\ mtls = IdleMTLS
    /\ firewall = NewManager(DefaultAccessDuration)
    /\ usersTbl \in {[rows |-> rows, last |-> [op |-> "none"]] : rows \in SUBSET UserRows}
    /\ ln = NewListener

UserLoadNext ==
    \/ \E id \in {0} \cup UserIds, name \in UserNames \cup {""}, queryFails \in BOOLEAN :
           UserLoadCall(id, name, queryFails)
    \/ \E id \in {0} \cup UserIds, name \in UserNames \cup {""} : UserRowsDelete(id, name)

UserLoadSpec == UserLoadInit /\ [][UserLoadNext]_vars

----------------------------------------------------------------------------
(* The hybrid listener on its own *)

ListenerInit ==
    /\ now = 1
    /\ invites = [i \in InviteIds |-> NoRow]
    /\ certs = [n \in Nonces |-> 0]
    /\ reqs = [r \in JoinIds |-> IdleReq]
    /\ errLvl = ErrorLevelFull
    /\ created = 0
    /\ pl = NoPipeline
    /\ h = NewRun
    /\ mtls = IdleMTLS
    /\ firewall = NewManager(DefaultAccessDuration)
    /\ usersTbl = NoUsers
    /\ ln = NewListener

ListenerNext ==
    \/ \E acceptFails \in BOOLEAN, peek \in Peeks : Accept(acceptFails, peek)
    \/ ConnClose

ListenerSpec == ListenerInit /\ [][ListenerNext]_vars

----------------------------------------------------------------------------
(* The accept loop of the server with its clients *)

ServeInit ==
    /\ now = 1
    /\ invites = [i \in InviteIds |-> NoRow]
    /\ certs = [n \in Nonces |-> 0]
    /\ reqs = [r \in JoinIds |-> IdleReq]
    /\ errLvl = ErrorLevelFull
    /\ created = 0
    /\ pl = NoPipeline
    /\ h = NewRun
    /\ mtls = IdleMTLS
    /\ firewall = NewManager(DefaultAccessDuration)
    /\ usersTbl = NoUsers
    /\ ln = NewServer

ServeNext ==
    \/ \E c \in ConnIds, kind \in {"http", "tls"} : Dial(c, kind)
    \/ \E c \in ConnIds : Send(c)
    \/ \E c \in ConnIds : Hangup(c)
    \/ AcceptConn
    \/ AcceptPeek
    \/ \E c \in ConnIds : ServeDone(c)

ServeSpec == ServeInit /\ [][ServeNext]_vars

\* The goroutine of Serve is scheduled: a statement of the accept loop that can
\* run does run.  Nothing obliges a client to send or to close.
ServeFairSpec ==
    ServeInit /\ [][ServeNext]_vars /\ WF_vars(AcceptConn) /\ WF_vars(AcceptPeek)

----------------------------------------------------------------------------
(* Properties *)

Done(r) == reqs[r].pc = "done" /\ reqs[r].run.written = 1
Answered(r, code) == Done(r) /\ reqs[r].run.wstatus = code

\* C1: for every invite, at most one /join request passes the redeem step of
\* InviteTokenAuth (stated as the claim; the code lets several pass).
C1_AtMostOneJoinRedeems ==
    \A n \in Nonces :
        Cardinality({r \in JoinIds : reqs[r].nonce = n /\ reqs[r].hit # 0}) <= 1

\* C2: a /join sent after a /join with the same token was answered 200 is
\* answered 401, in the same server process and after a restart.
C2_LaterJoinIs401 ==
    \A r \in JoinIds : reqs[r].after => Answered(r, StatusUnauthorized)

C2_Witness ==
    \E r, o \in JoinIds :
        /\ reqs[r].after /\ Answered(r, StatusUnauthorized) /\ ~reqs[r].old
        /\ Answered(o, StatusOK) /\ reqs[o].old

\* C3: a Redeem that runs when the invite is already redeemed fails, and the
\* request is answered 401 (stated as the claim; in the code the update is not
\* conditional on redeemed_at and the call succeeds).
C3_RedeemOfRedeemedFails ==
    \A r \in JoinIds :
        reqs[r].saw => /\ reqs[r].hit = 0
                       /\ reqs[r].pc = "done"
                       /\ Answered(r, StatusUnauthorized)

\* C4: a /join request that marked an invite redeemed ends with status 200
\* (stated as the claim; in the code the authenticator redeems before the
\* later stages can fail).
C4_RedeemedOnlyBySuccessfulJoin ==
    \A r \in JoinIds :
        reqs[r].pc = "done" /\ reqs[r].hit # 0 => Answered(r, StatusOK)

\* C5: an invite whose status is Expired never becomes Redeemed (stated as the
\* claim; in the code a /join that loaded the invite before it expired redeems
\* it afterwards).
C5_ExpiredNeverRedeemed ==
    [][\A i \in InviteIds :
          (/\ invites[i] # NoRow
           /\ invites'[i] # NoRow
           /\ Status(invites[i], now) = InviteStatusExpired)
          => Status(invites'[i], now') # InviteStatusRedeemed]_vars

\* C6: once the stored redeemed_at of an invite is set, no operation clears it.
C6_RedeemedAtNeverCleared ==
    [][\A i \in InviteIds :
          (/\ invites[i] # NoRow
           /\ invites'[i] # NoRow
           /\ invites[i].RedeemedAt.Valid)
          => invites'[i].RedeemedAt.Valid]_vars

\* A Redeem ran on a row that was already redeemed, and the row still is.
C6_Witness ==
    \E r \in JoinIds :
        /\ reqs[r].saw /\ reqs[r].hit # 0
        /\ invites[reqs[r].hit] # NoRow
        /\ invites[reqs[r].hit].RedeemedAt.Valid

\* C7: when Handle returns, exactly one response has been written and it
\* carries a status code (stated as the claim; in the code a Serialize error
\* returns from the deferred function before writeResponse).
C7_ExactlyOneResponse ==
    h.pc = "done" => h.written = 1 /\ h.wstatus # 0

\* The status the error funnel is to record for an error.
FunnelStatus(err) ==
    IF err.kind = "typed" /\ err.code # 0 THEN err.code ELSE StatusInternalServerError

\* C8: when a request stage or the handler returned an error (and no response
\* stage failed), the envelope that is written carries that error's status code
\* and its sanitized error (stated as the claim; in the code the error of a
\* handler that also returned a response is recorded on the other object).
C8_WrittenEnvelopeCarriesError ==
    (h.pc = "done" /\ h.written = 1 /\ h.reqErr # NilErr /\ ~h.respErr)
    => /\ h.wstatus = FunnelStatus(h.reqErr)
       /\ Resp(h).StatusCode = FunnelStatus(h.reqErr)
       /\ (pl.errorLevel # ErrorLevelNone => Resp(h).Error # NilErr)

\* C9: the error funnel records status 500 for an error that is no typed
\* Error or a typed Error with status code 0, and the error's own status code
\* otherwise, under every error level.
C9_FunnelRecordsStatus ==
    /\ (h.reqErr # NilErr /\ ~h.respErr) => h.pre.StatusCode = FunnelStatus(h.reqErr)
    /\ h.respErr => h.pre.StatusCode = StatusInternalServerError

C9_Witness ==
    /\ h.reqErr = NewError(0, "no status")
    /\ pl.errorLevel = ErrorLevelNone
    /\ h.pre.StatusCode = StatusInternalServerError

MinimalMessage(code) ==
    CASE code = StatusUnauthorized -> "authentication failed"
      [] code = StatusBadRequest -> "invalid request"
      [] OTHER -> "request failed"

\* C11: with error level minimal, the error message recorded on the response
\* and the one in the written body are determined by the status code alone:
\* "authentication failed" for 401, "invalid request" for 400, "request failed"
\* for every other status.
C11_MinimalMessageByStatus ==
    pl.errorLevel = ErrorLevelMinimal =>
        /\ h.pre.Error # NilErr => h.pre.Error.msg = MinimalMessage(h.pre.StatusCode)
        /\ (h.written = 1 /\ h.wbody.doc.kind = "json" /\ h.wbody.doc.hasError)
           => h.wbody.doc.error = MinimalMessage(h.wbody.doc.status_code)
        /\ (h.written = 1 /\ h.wbody.doc.kind = "text")
           => h.wbody.doc.msg = MinimalMessage(h.wstatus)
        /\ (h.written = 1 /\ h.wbody.doc.kind = "json" /\ h.wbody.doc.hasError /\ ~h.respErr)
           => h.wbody.doc.error = MinimalMessage(h.wstatus)

\* A plain error was written as "request failed" with status 500.
C11_Witness ==
    /\ pl.errorLevel = ErrorLevelMinimal
    /\ h.reqErr = PlainErr("plain error")
    /\ h.written = 1 /\ h.wstatus = StatusInternalServerError
    /\ h.wbody.doc.kind = "json" /\ h.wbody.doc.hasError
    /\ h.wbody.doc.error = "request failed"

\* The request came with a verified chain whose leaf names a user of the table.
MTLSIdentified == mtls.conn.kind = "verified" /\ mtls.existed

\* C12: for /open and /close the handler runs (and the firewall manager is
\* called) only for a request with a verified certificate chain whose leaf
\* Common Name loads an existing user; every other request is answered 401
\* and the handler does not run.
C12_HandlerOnlyAfterTLSAuth ==
    /\ mtls.pc = "authed" => MTLSIdentified
    /\ (RanHandler(mtls.run) \/ mtls.fw) => MTLSIdentified
    /\ (mtls.pc = "done" /\ ~MTLSIdentified)
       => /\ mtls.run.written = 1
          /\ mtls.run.wstatus = StatusUnauthorized
          /\ ~RanHandler(mtls.run)
          /\ ~mtls.fw

\* A request that arrived as plain HTTP was answered 401 without the handler.
C12_Witness ==
    /\ mtls.pc = "done"
    /\ mtls.conn.kind = "plain"
    /\ mtls.run.written = 1 /\ mtls.run.wstatus = StatusUnauthorized
    /\ ~RanHandler(mtls.run)

\* C13: in mTLS authentication the request is answered 401 when the user named
\* by the certificate does not exist and 500 when the lookup fails with a
\* database error (stated as the claim; the code answers 401 for every error
\* of User.Load).
C13_UserLoadErrorStatus ==
    (mtls.pc = "done" /\ mtls.conn.kind = "verified" /\ mtls.conn.cn # "" /\ mtls.run.written = 1)
    => /\ mtls.dbErr => mtls.run.wstatus = StatusInternalServerError
       /\ (~mtls.dbErr /\ ~mtls.existed) => mtls.run.wstatus = StatusUnauthorized

\* C14: a /join that is well-formed except that the HMAC of its token differs
\* from the correct value is answered 401, redeems nothing, and leaves the
\* invites table as it was, so that the invite can still be redeemed.
C14_BadHMACIs401AndNoChange ==
    [][\A r \in JoinIds :
          reqs'[r].badMac # 0
          => /\ reqs'[r].pc = "done"
             /\ reqs'[r].run.written = 1
             /\ reqs'[r].run.wstatus = StatusUnauthorized
             /\ reqs'[r].hit = 0
             /\ reqs[r].badMac = 0 => invites' = invites]_vars

\* A /join with a wrong HMAC for an active invite was answered 401 and a later
\* correct /join for the same invite was answered 200.
C14_Witness ==
    \E r, o \in JoinIds :
        /\ r < o
        /\ reqs[r].badMac # 0
        /\ Answered(r, StatusUnauthorized)
        /\ errLvl = ErrorLevelFull
        /\ reqs[r].run.pre.Error.msg = "invalid invite token"
        /\ reqs[o].nonce = reqs[r].badMac
        /\ Answered(o, StatusOK)

\* C15: a /join whose token names an invite with expires_at not later than the
\* current time is answered 401 "invite not found": the invite is not loaded,
\* the request redeems nothing and the invites table is left as it was.
C15_ExpiredInviteNotLoaded ==
    [][\A r \in JoinIds :
          reqs'[r].expd # 0
          => /\ reqs'[r].pc = "done"
             /\ reqs'[r].run.written = 1
             /\ reqs'[r].run.wstatus = StatusUnauthorized
             /\ errLvl = ErrorLevelFull => reqs'[r].run.pre.Error.msg = "invite not found"
             /\ reqs'[r].hit = 0
             /\ reqs[r].expd = 0 => invites' = invites]_vars

\* A correct /join arrived exactly when its unredeemed invite expired and was
\* answered 401 "invite not found"; the invite is still not redeemed.
C15_Witness ==
    \E r \in JoinIds, i \in InviteIds :
        /\ reqs[r].expd # 0
        /\ reqs[r].badMac = 0
        /\ Answered(r, StatusUnauthorized)
        /\ errLvl = ErrorLevelFull
        /\ reqs[r].run.pre.Error.msg = "invite not found"
        /\ invites[i] # NoRow
        /\ invites[i].Nonce = reqs[r].expd
        /\ invites[i].ExpiresAt = now
        /\ ~invites[i].RedeemedAt.Valid

\* C16: an invite that is created has an expires_at strictly later than the
\* time of its creation (stated as the claim; the code only rejects the
\* expiration times before the current time).
C16_ExpiresAfterCreation ==
    [][\A i \in InviteIds :
          (created' # created /\ invites[i] = NoRow /\ invites'[i] # NoRow)
          => invites'[i].ExpiresAt > now]_vars

\* C17: at most one invite row exists for a nonce, an insert with the nonce of
\* an existing row being rejected (stated as the claim; the table of the code
\* has no uniqueness constraint on nonce).
C17_OneRowPerNonce ==
    \A r1, r2 \in Rows(invites) : r1.Nonce = r2.Nonce => r1 = r2

Encrypted(body) == \E k \in 1..Len(body.layers) : body.layers[k].op = "enc"

\* What the client gets from a body with the shared key: it decodes the base58
\* text and decrypts the result with the key; NoDoc when either step fails.
DecryptedDoc(body, key) ==
    IF body.layers = <<[op |-> "enc", key |-> key], [op |-> "b58", key |-> NoKey]>>
    THEN body.doc
    ELSE NoDoc

\* C19: every /join response whose body is encrypted decrypts under the shared
\* key of the request to a JSON document whose status_code is the HTTP status
\* code that was written.
C19_EncryptedStatusMatches ==
    \A r \in JoinIds :
        (Done(r) /\ Encrypted(reqs[r].run.wbody))
        => LET d == DecryptedDoc(reqs[r].run.wbody, getSharedKey(reqs[r].run.ctx))
           IN /\ Len(getSharedKey(reqs[r].run.ctx)) # 0
              /\ d.kind = "json"
              /\ d.status_code = reqs[r].run.wstatus

\* An error response (status 500) was written encrypted.
C19_Witness ==
    \E r \in JoinIds :
        /\ Done(r) /\ Encrypted(reqs[r].run.wbody)
        /\ reqs[r].run.wstatus = StatusInternalServerError
        /\ DecryptedDoc(reqs[r].run.wbody, getSharedKey(reqs[r].run.ctx)).status_code
              = StatusInternalServerError

\* C20: the body of a /join request is ignored: a /join request that passed the
\* invite token authenticator is answered 200 unless Handler.Join or a response
\* stage after it failed, i.e. a status other than 200 is never due to the
\* stages before the handler (stated as the claim; in the code the pipeline of
\* /join has the JSON serializer, and Deserialize fails on an empty or malformed
\* body, which ends the request with status 500 before the handler).
C20_JoinBodyIgnored ==
    \A r \in JoinIds :
        (Done(r) /\ reqs[r].hit # 0 /\ ~Answered(r, StatusOK))
        => RanHandler(reqs[r].run)

\* C21: after a successful GrantAccess(ipSet, svc, d), every range of ipSet is
\* registered for port svc.Port with expiry (time of the call) + min(d',
\* svc.MaxAccessDuration), where d' is d, or the manager's default duration
\* when d = 0 (stated as the claim; in the code a zero duration is replaced by
\* the default after the clamp, so a default above the service's maximum is
\* granted in full).
C21_GrantAccessClampsDuration ==
    LET c == firewall.last
    IN (c.op = "grant" /\ c.ok)
       => \A ip \in c.ipSet :
            [ip |-> ip, port |-> c.svc.Port,
             expiry |-> c.at + Min(IF c.d = 0 THEN firewall.defaultAccessDuration ELSE c.d,
                                   c.svc.MaxAccessDuration)]
              \in firewall.Allowed

\* C27: the access rules of the firewall are a set keyed by (range, port):
\* there is never more than one entry for a pair, and after a successful grant
\* the entry of every (range of ipSet, port of the service) has the expiry
\* (time of that call) + (the duration the call handed to Allow), also when the
\* pair was present before.
C27_RulesKeyedByRangeAndPort ==
    /\ \A e1, e2 \in firewall.Allowed :
          (e1.ip = e2.ip /\ e1.port = e2.port) => e1 = e2
    /\ LET c == firewall.last
       IN (c.op = "grant" /\ c.ok)
          => \A e \in firewall.Allowed :
               (e.ip \in c.ipSet /\ e.port = c.svc.Port)
               => e.expiry = c.at + GrantDuration(firewall, c.svc, c.d)

\* A pair that was present was allowed again at a later time, with another expiry.
C27_Witness ==
    LET c == firewall.last
    IN /\ c.op = "grant" /\ c.ok /\ c.had # {} /\ c.at > 1
       /\ \E e \in firewall.Allowed : e.ip \in c.had /\ e.port = c.svc.Port /\ e.expiry > 1 + DefaultAccessDuration

\* C22: a /close request over valid mTLS whose body names an existing service
\* and has an empty clients list calls DenyAccess with the deny-list
\* {0.0.0.0/0, ::/0} and is answered 200 (stated as the claim; in the code
\* CloseRequest.Validate rejects an empty clients list with 400 before
\* Handler.Close runs).
C22_CloseWithoutClientsDeniesAll ==
    (/\ mtls.pc = "done" /\ mtls.ep = "close" /\ mtls.user # ""
     /\ mtls.body = "json" /\ mtls.noClients /\ mtls.known)
    => /\ mtls.call.op = "deny"
       /\ mtls.call.ipSet = {"0.0.0.0/0", "::/0"}
       /\ mtls.run.written = 1 /\ mtls.run.wstatus = StatusOK

\* C23: a /open or /close request that passed TLSAuth and whose JSON body
\* names a service that does not exist is answered 400, and its handling
\* issues no call to the firewall manager and leaves the firewall as it was.
C23_UnknownServiceIs400NoFirewallCall ==
    [][(/\ mtls.pc = "authed" /\ mtls'.pc = "done"
        /\ mtls'.body = "json" /\ ~mtls'.known)
       => /\ mtls'.run.written = 1 /\ mtls'.run.wstatus = StatusBadRequest
          /\ mtls'.call = NoFwCall /\ ~mtls'.fw
          /\ firewall' = firewall]_vars

\* Handler.Close ran for a request with well-formed clients that names a
\* service not in the table, while the firewall had entries, and answered 400.
C23_Witness ==
    /\ mtls.pc = "done" /\ mtls.ep = "close" /\ mtls.body = "json"
    /\ RanHandler(mtls.run) /\ ~mtls.known
    /\ Resp(mtls.run).Error.msg = "service with name doesn't exist"
    /\ mtls.run.wstatus = StatusBadRequest
    /\ firewall.Allowed # {}

\* C24: User.Load never panics; it returns an error when the lookup by id or
\* name matches more than one row and when it matches none (stated as the
\* claim; the code panics when its query returns more than one user, and
\* returns nil when several rows of one name match).
C24_UserLoadNeverPanics ==
    LET c == usersTbl.last
    IN (c.op = "load" /\ (c.id # 0 \/ c.name # "") /\ ~c.queryFails)
       => /\ ~c.res.panicked
          /\ c.matches > 1 => c.res.err # NilErr
          /\ c.matches = 0 => c.res.err # NilErr

\* C25: when the peek of the first 3 bytes of an accepted connection ends with
\* io.EOF, Accept closes the connection and neither panics nor returns an
\* error; every other peek error is returned from Accept (stated as the claim;
\* in the code the bytes are indexed after an EOF as well, which panics when
\* the peer sent fewer bytes than the test reads).
C25_PeekEOFIsNotAFailure ==
    LET c == ln.last
    IN (c.op = "accept" /\ ~c.acceptFails)
       => /\ c.peek.err = "EOF" => (c.res.closed /\ ~c.res.panicked /\ c.res.err = "nil")
          /\ c.peek.err = "other" => c.res.err = "other"

\* C26: a /open or /close request that passed TLSAuth and whose body is
\* malformed JSON is answered 400 (stated as the claim; in the code the error
\* of Deserialize is a plain error, which the error handler turns into 500).
C26_MalformedJSONIs400 ==
    (mtls.pc = "done" /\ mtls.ep \in {"open", "close"} /\ mtls.body = "malformed")
    => (mtls.run.written = 1 /\ mtls.run.wstatus = StatusBadRequest)

RequestStages == {"auth", "deserialize", "validate", "reqproc", "handler"}

\* The response stages of a pipeline, in the order of the deferred function.
ResponseStages(p) ==
    (IF p.serializer THEN <<"serialize">> ELSE <<>>) \o p.procs \o <<"write">>

EndsWith(t, e) ==
    Len(t) >= Len(e) /\ SubSeq(t, Len(t) - Len(e) + 1, Len(t)) = e

\* C28: once a request stage has recorded an error, no later request stage and
\* no handler runs, and, unless a response stage itself fails, the run ends
\* with the response serialization, every declared response processor in
\* order, and the write.
C28_ErrorSkipsRequestStagesOnly ==
    [][/\ h.reqErr # NilErr
          => \A k \in (Len(h.trace) + 1)..Len(h'.trace) : h'.trace[k] \notin RequestStages
       /\ (h'.pc = "done" /\ h'.reqErr # NilErr /\ ~h'.respErr)
          => EndsWith(h'.trace, ResponseStages(pl))]_vars

\* Validation failed in a pipeline with a request processor and two response
\* processors: the processor and the handler were skipped, the response stages ran.
C28_Witness ==
    /\ h.pc = "done" /\ h.reqErr # NilErr /\ ~h.respErr
    /\ pl.nreq = 1 /\ Len(pl.procs) = 2 /\ pl.serializer
    /\ \E k \in 1..Len(h.trace) : h.trace[k] = "validate"
    /\ \A k \in 1..Len(h.trace) : h.trace[k] \notin {"reqproc", "handler"}
    /\ EndsWith(h.trace, <<"serialize">> \o pl.procs \o <<"write">>)

StageRank(x) ==
    CASE x = "auth" -> 1
      [] x = "deserialize" -> 2
      [] x = "validate" -> 3
      [] x = "reqproc" -> 4
      [] x = "handler" -> 5
      [] OTHER -> 6

IsRequestStage(x) == x \in RequestStages
IsResponseStage(x) == x \notin RequestStages

\* C29: the stages a request has run so far are in the order authentication,
\* deserialization, validation, request processors, handler, response
\* serialization, response processors in their declared order, write; none
\* ran twice (there are at most as many runs of request processors as the
\* pipeline declares), also after a response stage failed.
C29_StagesRunInOrderOnce ==
    LET t == h.trace
        req == SelectSeq(t, IsRequestStage)
        rsp == SelectSeq(t, IsResponseStage)
    IN /\ t = req \o rsp
       /\ \A i, j \in 1..Len(req) :
            i < j => \/ StageRank(req[i]) < StageRank(req[j])
                     \/ (req[i] = "reqproc" /\ req[j] = "reqproc")
       /\ Cardinality({i \in 1..Len(req) : req[i] = "reqproc"}) <= pl.nreq
       /\ \E s \in {<<>>} \cup (IF pl.serializer THEN {<<"serialize">>} ELSE {}),
             j \in 0..Len(pl.procs), w \in {<<>>, <<"write">>} :
            rsp = s \o SubSeq(pl.procs, 1, j) \o w

\* A run through every stage in which the second response processor failed.
C29_Witness ==
    /\ h.pc = "done" /\ h.respErr /\ pl.nreq = 1
    /\ h.trace = <<"auth", "deserialize", "validate", "reqproc", "handler", "serialize">>
                   \o pl.procs \o <<"write">>
    /\ Len(pl.procs) = 2

\* C30: the redeem update of /join leaves expires_at and site_id of the invite
\* row as they were immediately before it (stated as the claim; in the code
\* Redeem saves the struct the authenticator loaded, so the UPDATE also sets
\* expires_at and site_id to the loaded values and undoes an invite update
\* applied since the load).
C30_RedeemKeepsExpiryAndSite ==
    [][\A r \in JoinIds :
          (reqs[r].pc = "loaded" /\ reqs'[r].pc = "authed")
          => \A i \in InviteIds :
               (invites[i] # NoRow /\ invites'[i] # NoRow)
               => /\ invites'[i].ExpiresAt = invites[i].ExpiresAt
                  /\ invites'[i].SiteID = invites[i].SiteID]_vars

\* The stages a pipeline configures.
StagesOf(p) ==
    (IF p.auth THEN {"auth"} ELSE {})
    \cup (IF p.serializer THEN {"deserialize", "serialize"} ELSE {})
    \cup (IF p.validates THEN {"validate"} ELSE {})
    \cup (IF p.nreq > 0 THEN {"reqproc"} ELSE {})
    \cup {p.procs[j] : j \in 1..Len(p.procs)}
    \cup {"handler", "write"}

\* C31: no stage of a request changes the pipeline the handler was registered
\* with, and each of the concurrent requests sharing it runs only stages that
\* pipeline configures, ending (unless a response stage fails) with its
\* response stages in their declared order.
C31_PipelineNotModifiedByRequests ==
    [][/\ pl' = pl
       /\ \A k \in Sharers :
            /\ \A j \in (Len(h[k].trace) + 1)..Len(h'[k].trace) :
                 h'[k].trace[j] \in StagesOf(pl)
            /\ (h'[k].pc = "done" /\ ~h'[k].respErr)
               => EndsWith(h'[k].trace, ResponseStages(pl))]_vars

\* Two requests of /join in flight at once, one in its response processors and
\* one still before its handler, and later both answered.
C31_Witness ==
    /\ pl.procs = <<"Encrypt", "EncodeBase58">>
    /\ h[1].pc = "done" /\ ~h[1].respErr /\ h[1].reqErr = NilErr
    /\ EndsWith(h[1].trace, <<"serialize", "Encrypt", "EncodeBase58", "write">>)
    /\ h[2].pc = "respproc" /\ h[2].i = 2

\* C32: every response body written for a /join request whose context holds
\* the shared key of InviteTokenAuth is the serialized response encrypted with
\* that key and then base58-encoded, also when a response processor failed
\* (stated as the claim; in the code a failing Encrypt returns the context it
\* was given, the loop breaks, and writeResponse writes the serialized JSON of
\* that context as it is).
C32_JoinBodyNeverPlaintext ==
    \A r \in JoinIds :
        (Done(r) /\ Len(getSharedKey(reqs[r].run.ctx)) # 0)
        => reqs[r].run.wbody.layers =
              <<[op |-> "enc", key |-> getSharedKey(reqs[r].run.ctx)],
                [op |-> "b58", key |-> NoKey]>>

\* C33: over any interleaving of /join requests for the same invite, at most
\* one client-certificate record is created from it (stated as the claim; in
\* the code InviteTokenAuth loads the invite and redeems it in two separate
\* statements, so two requests that both loaded the unredeemed invite both
\* pass, and Handler.Join issues and saves a certificate for each).
C33_AtMostOneCertificatePerInvite ==
    \A n \in Nonces : certs[n] <= 1

\* C35: the redeemed_at an invite row holds is never overwritten: no step
\* changes a non-null stored redeemed_at of a row to a different timestamp
\* (stated as the claim; in the code Redeem looks at the struct it was given,
\* not at the row, and its UPDATE sets redeemed_at unconditionally, so a second
\* request that loaded the invite before the first redemption overwrites it).
C35_RedeemedAtNeverOverwritten ==
    [][\A i \in InviteIds :
          (/\ invites[i] # NoRow /\ invites'[i] # NoRow
           /\ invites[i].RedeemedAt.Valid /\ invites'[i].RedeemedAt.Valid)
          => invites'[i].RedeemedAt.V = invites[i].RedeemedAt.V]_vars

\* C36: for every invite that is not redeemed and the current time t, also
\* t = expires_at, Status(t) is active exactly when a load by nonce at t finds
\* the invite and exactly when InvitesByStatus lists it as active at t (stated
\* as the claim; in the code Status compares with now.After(expires_at), the
\* two queries with expires_at > now, so they differ at t = expires_at).
C36_StatusAgreesWithLookups ==
    \A i \in InviteIds :
        (invites[i] # NoRow /\ ~invites[i].RedeemedAt.Valid)
        => LET row == invites[i]
               isActive == Status(row, now) = InviteStatusActive
               loaded == Load([ZeroInvite EXCEPT !.Nonce = row.Nonce], invites, now)
               listed == InvitesByStatus(invites, {InviteStatusActive}, now)
           IN /\ isActive <=> (loaded.err = NilErr /\ loaded.inv = row)
              /\ isActive <=> (\E k \in 1..Len(listed) : listed[k] = row)

\* C34: the duration GrantAccess passes to the firewall backend never exceeds
\* svc.MaxAccessDuration, for every requested duration, also d = 0 (stated as
\* the claim; in the code the default that replaces d = 0 is substituted after
\* the clamp and is passed on as it is).
C34_PassedDurationWithinMax ==
    LET c == firewall.last
    IN c.op = "grant" => GrantDuration(firewall, c.svc, c.d) <= c.svc.MaxAccessDuration

\* C37: a client that opened a connection and sends fewer than 3 bytes without
\* closing does not keep the listener from accepting other connections: every
\* queued connection whose client has sent its first three bytes is eventually
\* returned by Accept, unless the accept loop has ended (stated as the claim;
\* in the code Accept waits inside Peek(3) on the connection it took from the
\* queue, and Serve calls Accept from a single loop).
C37_SlowClientDoesNotBlockAccept ==
    \A c \in ConnIds :
        (ln.conns[c].st = "queued" /\ ln.conns[c].sent = 3)
        ~> (ln.conns[c].st = "returned" \/ ln.down)

====
